---- MODULE Spec2Model ----
(***************************************************************************)
(* Model of the module kernel of Mobile-Dev-Toolkit: ModuleRegistry        *)
(* (src/src/core/modules/registry.ts) and ModuleManager                    *)
(* (src/src/core/modules/manager.ts).  Every asynchronous method is split  *)
(* at its awaits: a call is a stack of frames, one frame per method that   *)
(* is executing, and each action runs one frame from one await to the      *)
(* next.  A lifecycle hook either completes or throws; the manager catches *)
(* nothing, so a throw rejects the whole call.                             *)
(***************************************************************************)
EXTENDS Integers, Sequences, FiniteSets, TLC

\* ------------------------------------------------------------------ bounds
\* Number of definitions register() may add after the manager's construction.
MaxLate == 1
\* Number of call slots (calls that may be in flight at once).
MaxTasks == 2
\* Hook invocations and events logged beyond which no further overlapping call
\* starts.
MaxLogged == 3

Tasks == 1..MaxTasks

\* No value where a string is expected, and no module id (null).
Null == "null"
NoId == <<>>
Absent == "absent"

\* ------------------------------------------------------- module identifiers
\* A module id is a string; it is kept as its sequence of characters so that
\* the id grammar is computed, not assumed.
Lower == {"a","b","c","d","e","f","g","h","i","j","k","l","m",
          "n","o","p","q","r","s","t","u","v","w","x","y","z"}
Digit == {"0","1","2","3","4","5","6","7","8","9"}
SegmentChar == Lower \cup Digit \cup {"-"}

IdA == <<"w", ".", "a">>
IdB == <<"w", ".", "b">>
IdP == <<"u", ".", "p">>
IdQ == <<"u", ".", "q">>
IdG == <<"b", "g", ".", "g">>
IdX == <<"w", ".", "x">>
IdY == <<"b", "g", ".", "y">>
IdL == <<"w", ".", "l", "8">>
IdUpper == <<"W", ".", "a">>
IdSingle == <<"w">>

\* MODULE_ID_PATTERN = /^[a-z][a-z0-9-]*(\.[a-z0-9-]+)+$/ : a lowercase
\* letter first, only [a-z0-9-] and dots, at least one dot, and no dot that is
\* first, last or next to another dot.
IsValidModuleId(id) ==
    /\ Len(id) > 0
    /\ id[1] \in Lower
    /\ \A i \in 1..Len(id) : id[i] \in SegmentChar \cup {"."}
    /\ \E i \in 1..Len(id) : id[i] = "."
    /\ id[Len(id)] # "."
    /\ \A i \in 1..(Len(id) - 1) : ~(id[i] = "." /\ id[i + 1] = ".")

\* ------------------------------------------------------ module definitions
AllHooks == {"onInit", "onActivate", "onDeactivate", "onDispose"}

Def(id, mode, enabled, supports, viewId, hooks) ==
    [id |-> id, activationMode |-> mode, enabled |-> enabled,
     supports |-> supports, viewId |-> viewId, hooks |-> hooks]

\* The views the presentation layer has registered (src/src/ui/viewRegistry.ts).
KnownViews == {"screenshot", "json"}

DefA == Def(IdA, Absent, Absent, Absent, "screenshot", AllHooks)
DefB == Def(IdB, "exclusive", "true", Absent, "json", AllHooks)
DefP == Def(IdP, "parallel", Absent, "true", Absent, AllHooks)
DefQ == Def(IdQ, "parallel", Absent, Absent, Absent, {})
DefG == Def(IdG, "background", Absent, Absent, Absent, AllHooks)
DefX == Def(IdX, "exclusive", "false", Absent, Absent, AllHooks)
DefY == Def(IdY, "background", "true", "false", Absent, AllHooks)
\* Definitions offered to register() after construction.
DefL == Def(IdL, "exclusive", Absent, Absent, "missing", {"onActivate"})
DefA2 == Def(IdA, "parallel", Absent, Absent, Absent, AllHooks)
DefUpper == Def(IdUpper, "exclusive", Absent, Absent, "missing", AllHooks)
DefSingle == Def(IdSingle, "parallel", Absent, Absent, Absent, AllHooks)

\* The definitions the loader has registered when the manager is constructed.
BootDefinitions == <<DefA, DefG, DefX, DefP, DefB, DefY>>
LateDefinitions == {DefQ, DefL, DefA2, DefUpper, DefSingle}

ModuleIds == {IdA, IdB, IdP, IdQ, IdG, IdX, IdY, IdL, IdUpper, IdSingle}

\* ---------------------------------------------------------------- helpers
ToSet(s) == {s[i] : i \in 1..Len(s)}

RECURSIVE SeqWithout(_, _)
SeqWithout(s, x) ==
    IF s = <<>> THEN <<>>
    ELSE IF Head(s) = x THEN SeqWithout(Tail(s), x)
    ELSE <<Head(s)>> \o SeqWithout(Tail(s), x)

\* Set.prototype.add on an insertion-ordered Set.
SetAdd(s, x) == IF x \in ToSet(s) THEN s ELSE Append(s, x)
\* Set.prototype.delete.
SetDelete(s, x) == SeqWithout(s, x)

Keys(m) == [i \in 1..Len(m) |-> m[i].id]
MapHas(m, id) == \E i \in 1..Len(m) : m[i].id = id
MapGet(m, id) == m[CHOOSE i \in 1..Len(m) : m[i].id = id]
\* Map.prototype.set: an existing key keeps its position.
MapSet(m, v) ==
    IF MapHas(m, v.id)
    THEN [i \in 1..Len(m) |-> IF m[i].id = v.id THEN v ELSE m[i]]
    ELSE Append(m, v)

VARIABLES
    definitions,              \* ModuleRegistry.definitions, in insertion order
    viewResolver,             \* ModuleRegistry.viewResolver: "unset" or "set"
    instances,                \* ModuleManager.instances, in insertion order
    activeModuleIds,          \* ModuleManager.activeModuleIds, in insertion order
    activeExclusiveModuleId,  \* ModuleManager.activeExclusiveModuleId
    tasks,                    \* the calls in flight: one record per slot
    hookLog,                  \* factories, hooks and provider loads invoked by the calls in flight
    eventLog,                 \* events emitted by the calls in flight
    listeners,                \* EventBus.listeners: event name -> handlers, in insertion order
    dispatch,                 \* the emit calls that are executing, innermost last
    emissions,                \* the emit calls of the current outermost emit, in call order
    busLog,                   \* handler invocations and caught errors of those emit calls
    held,                     \* the unsubscribe function a caller has kept
    handlerOps,               \* bus calls made by handlers during the current outermost emit
    moduleManager,            \* CoreKernel.moduleManager: "none" or "constructed"
    adapters,                 \* AdapterRegistry.adapters, in insertion order
    adaptersInitialized,      \* CoreKernel.adaptersInitialized
    adapterCall,              \* the last call of AdapterRegistry.register / unregister
    adapterLog,               \* adapter hooks invoked by the calls in flight
    uiSnapshot                \* the state useModuleManagerSnapshot holds

busVars == <<listeners, dispatch, emissions, busLog, held, handlerOps>>
kernelVars == <<moduleManager, adapters, adaptersInitialized, adapterCall, adapterLog>>
\* The bus and the UI hook that subscribes to it.
subscriberVars == <<busVars, uiSnapshot>>

vars == <<definitions, viewResolver, instances, activeModuleIds,
          activeExclusiveModuleId, tasks, hookLog, eventLog, busVars, kernelVars,
          uiSnapshot>>

registryVars == <<definitions, viewResolver>>
managerVars == <<instances, activeModuleIds, activeExclusiveModuleId>>
\* Everything but the event bus.
nonBusVars == <<registryVars, managerVars, tasks, hookLog, eventLog, kernelVars,
                uiSnapshot>>

\* ------------------------------------------------------------------ calls
\* A frame is a method suspended at an await: pc names the await, inst is the
\* instance the method holds in a local (next, instance), cur the module whose
\* hook it awaits, todo what its loop has left, idx its iterator's position.
Frame(op, pc, inst, cur, todo, idx) ==
    [op |-> op, pc |-> pc, inst |-> inst, cur |-> cur, todo |-> todo, idx |-> idx]

NoInstance == [id |-> NoId, activationMode |-> Absent, hooks |-> {}]

IdleTask ==
    [op |-> "idle", arg |-> NoId, status |-> "idle", error |-> Null,
     failed |-> [hook |-> Null, id |-> NoId], stack |-> <<>>,
     pre |-> [instances |-> <<>>, activeModuleIds |-> <<>>,
              activeExclusiveModuleId |-> NoId, definitions |-> <<>>]]

PreState ==
    [instances |-> instances, activeModuleIds |-> activeModuleIds,
     activeExclusiveModuleId |-> activeExclusiveModuleId,
     definitions |-> definitions]

NewTask(op, arg, stack) ==
    [op |-> op, arg |-> arg, status |-> "running", error |-> Null,
     failed |-> [hook |-> Null, id |-> NoId], stack |-> stack, pre |-> PreState]

\* A caller starts a call only when no other call is in flight.
CanStart(t) == \A u \in Tasks : tasks[u].status = "idle" /\ t <= u

Top(t) == tasks[t].stack[Len(tasks[t].stack)]
Running(t, op, pc) ==
    /\ tasks[t].status = "running"
    /\ tasks[t].stack # <<>>
    /\ Top(t).op = op
    /\ Top(t).pc = pc

\* The frames below the top one.
Below(t) == SubSeq(tasks[t].stack, 1, Len(tasks[t].stack) - 1)

\* The call `task` with this stack left: resolved once the stack is empty.
Settle(task, stack) ==
    [task EXCEPT !.stack = stack,
                 !.status = IF stack = <<>> THEN "resolved" ELSE "running"]
\* A hook of module id threw: nothing catches it, every frame is unwound and
\* the call rejects.
Reject(t, hook, id) ==
    [tasks EXCEPT ![t].stack = <<>>, ![t].status = "rejected",
                  ![t].error = "LifecycleHookFailure",
                  ![t].failed = [hook |-> hook, id |-> id]]

HookEntry(t, hook, id) == [task |-> t, hook |-> hook, id |-> id]
\* instance.lifecycle?.hook?.(): an absent hook is not invoked.
InvokeOn(log, t, inst, hook) ==
    IF hook \in inst.hooks THEN Append(log, HookEntry(t, hook, inst.id))
    ELSE log
Invoke(t, inst, hook) == InvokeOn(hookLog, t, inst, hook)
\* The outcomes of awaiting a hook: a hook that is present completes or throws,
\* an absent one completes.
Outcomes(inst, hook) == IF hook \in inst.hooks THEN {TRUE, FALSE} ELSE {TRUE}

Event(t, name, moduleId, mode, excl, active, moduleIds) ==
    [task |-> t, name |-> name, moduleId |-> moduleId, activationMode |-> mode,
     activeExclusiveModuleId |-> excl, activeModuleIds |-> active,
     moduleIds |-> moduleIds]

\* The handlers useModuleManagerSnapshot subscribes: module:activated and
\* module:deactivated store the payload's two fields, modules:ready stores
\* kernel.getSnapshot().modules; before the effect has run nothing is stored.
UiAfterEvent(ui, excl, active) ==
    IF ui.mounted
    THEN [ui EXCEPT !.activeExclusiveModuleId = excl, !.activeModuleIds = active]
    ELSE ui

\* ------------------------------------------------------------ event names
\* An event name is kept as its sequence of characters, like a module id.
EvA == <<"x", ":", "a">>
EvBad == <<"M", ":", "a">>

\* The events and handlers of the bus, and the payloads emitted.
BusEvents == {EvA, EvBad}
Handlers == {"h1", "h2"}
Payloads == {"p1", "p2"}
NoHandler == "none"
NoClosure == [event |-> <<>>, handler |-> NoHandler, countBefore |-> 0,
              after |-> <<>>, calls |-> 0]

\* new EventBus(): no subscription, no emit executing.
BusInit ==
    /\ listeners = [e \in BusEvents |-> <<>>]
    /\ dispatch = <<>>
    /\ emissions = <<>>
    /\ busLog = <<>>
    /\ held = NoClosure
    /\ handlerOps = 0

\* ----------------------------------------------------------------- adapters
Adapter(id, platform, capabilities) ==
    [id |-> id, platform |-> platform, capabilities |-> capabilities]

TauriSystemAdapter == Adapter("system.tauri", "desktop", {"system-command"})
AndroidDeviceAdapter == Adapter("device.android", "android", {"device-operations"})
IosDeviceAdapter == Adapter("device.ios", "ios", {"device-operations"})
HarmonyOSDeviceAdapter == Adapter("device.harmonyos", "harmonyos", {"device-operations"})
\* Another adapter under the id of the iOS one.
IosTwinAdapter == Adapter("device.ios", "ios", {"system-command", "device-operations"})

\* Adapters a host registers through getAdapterRegistry(), with an
\* initialize and a dispose hook; the adapters of the kernel have neither.
CustomAdapter == Adapter("custom.probe", "desktop", {"file-system"})
CustomTrace == Adapter("custom.trace", "desktop", {"system-command"})
CustomAdapters == {CustomAdapter, CustomTrace}
AdapterHooks(a) ==
    IF a \in CustomAdapters THEN {"initialize", "dispose"} ELSE {}

PlatformAdapters ==
    {TauriSystemAdapter, AndroidDeviceAdapter, IosDeviceAdapter, HarmonyOSDeviceAdapter}
Capabilities == {"system-command", "device-operations", "file-system"}
NoAdapter == Adapter("none", "none", {})
NoAdapterCall == [op |-> "none", adapter |-> NoAdapter, before |-> <<>>, error |-> Null]

\* useModuleManagerSnapshot before its effect has run: no subscription.
NotMounted ==
    [mounted |-> FALSE, activeExclusiveModuleId |-> NoId, activeModuleIds |-> <<>>]

\* The kernel once boot() has constructed the manager, outside Tauri: no
\* adapter is registered.
KernelBooted ==
    /\ moduleManager = "constructed"
    /\ adapters = <<>>
    /\ adaptersInitialized = TRUE
    /\ adapterCall = NoAdapterCall
    /\ adapterLog = <<>>

Init ==
    /\ definitions = BootDefinitions
    /\ viewResolver = "unset"
    /\ instances = <<>>
    /\ activeModuleIds = <<>>
    /\ activeExclusiveModuleId = NoId
    /\ tasks = [t \in Tasks |-> IdleTask]
    /\ hookLog = <<>>
    /\ eventLog = <<>>
    /\ BusInit
    /\ KernelBooted
    /\ uiSnapshot = NotMounted


\* ------------------------------------------------------------- the registry
\* Mutant of RegisterOutcome: a registered id is not looked for (the variant of
\* register that only validates the id).
RegisterOutcomeNoDuplicateCheck(defs, resolver, d) ==
    IF ~IsValidModuleId(d.id) THEN "InvalidModuleId"
    ELSE IF d.viewId # Absent /\ resolver = "set" /\ d.viewId \notin KnownViews
    THEN "UnknownViewReference"
    ELSE "ok"

\* Mutant of RegisterOutcome: the view is not looked up.
RegisterOutcomeNoViewCheck(defs, resolver, d) ==
    IF ~IsValidModuleId(d.id) THEN "InvalidModuleId"
    ELSE IF MapHas(defs, d.id) THEN "DuplicateModuleId"
    ELSE "ok"

\* ModuleRegistry.register: the error it throws, or "ok".
RegisterOutcome(defs, resolver, d) ==
    IF ~IsValidModuleId(d.id) THEN "InvalidModuleId"
    ELSE IF MapHas(defs, d.id) THEN "DuplicateModuleId"
    ELSE IF d.viewId # Absent /\ resolver = "set" /\ d.viewId \notin KnownViews
    THEN "UnknownViewReference"
    ELSE "ok"

\* register(definition), called by a provider or a test once the manager exists.
Register(t, d) ==
    /\ CanStart(t)
    /\ Len(definitions) < Len(BootDefinitions) + MaxLate
    /\ LET outcome == RegisterOutcome(definitions, viewResolver, d) IN
       /\ definitions' = IF outcome = "ok" THEN MapSet(definitions, d)
                         ELSE definitions
       /\ tasks' = [tasks EXCEPT ![t] =
                      [NewTask("register", d.id, <<>>) EXCEPT
                         !.status = IF outcome = "ok" THEN "resolved" ELSE "rejected",
                         !.error = IF outcome = "ok" THEN Null ELSE outcome]]
    /\ UNCHANGED <<viewResolver, managerVars, hookLog, eventLog>>
    /\ UNCHANGED <<subscriberVars, kernelVars>>

\* setViewResolver(resolver): bootstrap installs the view registry's lookup.
SetViewResolver ==
    /\ \A u \in Tasks : tasks[u].status = "idle"
    /\ viewResolver = "unset"
    /\ viewResolver' = "set"
    /\ UNCHANGED <<definitions, managerVars, tasks, hookLog, eventLog>>
    /\ UNCHANGED <<subscriberVars, kernelVars>>

\* -------------------------------------------------------------- activate
\* getActivationMode: instance.manifest.activationMode ?? "exclusive".
GetActivationMode(inst) ==
    IF inst.activationMode = Absent THEN "exclusive" ELSE inst.activationMode

\* Mutant of ActivateReturnsEarly: the already-active check is missing.
ActivateReturnsEarlyNoActiveCheck(insts, active, moduleId) ==
    ~MapHas(insts, moduleId)

\* activate's two early returns: no instance, or already active.
ActivateReturnsEarly(insts, active, moduleId) ==
    ~MapHas(insts, moduleId) \/ moduleId \in ToSet(active)

\* Mutant of MustSwitch: the outgoing module is never deactivated.
MustSwitchNever(mode, excl) == FALSE

\* Mutant of MustSwitch: the activation mode is not looked at.
MustSwitchAnyMode(mode, excl) == excl # NoId

\* The exclusive slot is taken: the outgoing module is deactivated first.
MustSwitch(mode, excl) == mode = "exclusive" /\ excl # NoId

\* Mutant of DeleteOutgoing: the outgoing exclusive module stays in the set.
DeleteOutgoingKept(active, excl) == active

\* this.activeModuleIds.delete(this.activeExclusiveModuleId).
DeleteOutgoing(active, excl) == SetDelete(active, excl)

\* Mutant of ExclusiveAfter: the slot is taken whatever the activation mode.
ExclusiveAfterAnyMode(mode, excl, moduleId) == moduleId

\* Mutant of ExclusiveAfter: the slot is taken only when it was free.
ExclusiveAfterStale(mode, excl, moduleId) ==
    IF mode = "exclusive" /\ excl = NoId THEN moduleId ELSE excl

\* this.activeExclusiveModuleId after `if (activationMode === "exclusive")`.
ExclusiveAfter(mode, excl, moduleId) ==
    IF mode = "exclusive" THEN moduleId ELSE excl

\* this.activeModuleIds.add(moduleId).
AddActive(active, moduleId) == SetAdd(active, moduleId)

\* The payload of module:activated, read from the manager when it is emitted.
ActivatedEvent(t, moduleId, mode, excl, active) ==
    Event(t, "module:activated", moduleId, mode, excl, active, <<>>)

\* Lines 96-100 of activate, from the active set `active`: take the exclusive
\* slot, join the active set, invoke onActivate and suspend on it.
ActivateCommit(t, next, active, below, base) ==
    LET mode == GetActivationMode(next) IN
    /\ activeExclusiveModuleId' =
           ExclusiveAfter(mode, activeExclusiveModuleId, next.id)
    /\ activeModuleIds' = AddActive(active, next.id)
    /\ hookLog' = Invoke(t, next, "onActivate")
    /\ tasks' = [tasks EXCEPT ![t] =
           Settle(base, Append(below,
               Frame("activate", "onActivate", next, NoInstance, <<>>, 0)))]
    /\ UNCHANGED <<instances, eventLog>>

\* activate(moduleId) from its call to its first await (or its return).
ActivateEnter(t, moduleId, below, base) ==
    IF ActivateReturnsEarly(instances, activeModuleIds, moduleId)
    THEN /\ tasks' = [tasks EXCEPT ![t] = Settle(base, below)]
         /\ UNCHANGED <<managerVars, hookLog, eventLog>>
    ELSE LET next == MapGet(instances, moduleId) IN
         IF MustSwitch(GetActivationMode(next), activeExclusiveModuleId)
         THEN LET current ==
                      IF MapHas(instances, activeExclusiveModuleId)
                      THEN MapGet(instances, activeExclusiveModuleId)
                      ELSE NoInstance IN
              /\ hookLog' = Invoke(t, current, "onDeactivate")
              /\ tasks' = [tasks EXCEPT ![t] =
                     Settle(base, Append(below,
                         Frame("activate", "onDeactivate", next, current,
                               <<>>, 0)))]
              /\ UNCHANGED <<managerVars, eventLog>>
         ELSE ActivateCommit(t, next, activeModuleIds, below, base)

StartActivate(t, moduleId) ==
    /\ CanStart(t)
    /\ ActivateEnter(t, moduleId, <<>>, NewTask("activate", moduleId, <<>>))
    /\ UNCHANGED registryVars
    /\ UNCHANGED <<subscriberVars, kernelVars>>

\* The outgoing module's onDeactivate has settled.
ActivateAfterOnDeactivate(t) ==
    /\ Running(t, "activate", "onDeactivate")
    /\ \E ok \in Outcomes(Top(t).cur, "onDeactivate") :
         IF ok
         THEN ActivateCommit(t, Top(t).inst,
                  DeleteOutgoing(activeModuleIds, activeExclusiveModuleId),
                  Below(t), tasks[t])
         ELSE /\ tasks' = Reject(t, "onDeactivate", Top(t).cur.id)
              /\ UNCHANGED <<managerVars, hookLog, eventLog>>
    /\ UNCHANGED registryVars
    /\ UNCHANGED <<subscriberVars, kernelVars>>

\* The module's own onActivate has settled: emit module:activated and return.
ActivateAfterOnActivate(t) ==
    /\ Running(t, "activate", "onActivate")
    /\ \E ok \in Outcomes(Top(t).inst, "onActivate") :
         IF ok
         THEN /\ eventLog' = Append(eventLog,
                     ActivatedEvent(t, Top(t).inst.id,
                         GetActivationMode(Top(t).inst),
                         activeExclusiveModuleId, activeModuleIds))
              /\ uiSnapshot' = UiAfterEvent(uiSnapshot, activeExclusiveModuleId,
                                            activeModuleIds)
              /\ tasks' = [tasks EXCEPT ![t] = Settle(tasks[t], Below(t))]
         ELSE /\ tasks' = Reject(t, "onActivate", Top(t).inst.id)
              /\ UNCHANGED <<eventLog, uiSnapshot>>
    /\ UNCHANGED <<registryVars, managerVars, hookLog>>
    /\ UNCHANGED <<busVars, kernelVars>>

\* The caller has seen the call settle; the logs of settled calls are dropped.
Return(t) ==
    /\ tasks[t].status \in {"resolved", "rejected"}
    /\ tasks' = [tasks EXCEPT ![t] = IdleTask]
    /\ IF \A u \in Tasks \ {t} : tasks[u].status = "idle"
       THEN hookLog' = <<>> /\ eventLog' = <<>> /\ adapterLog' = <<>>
       ELSE UNCHANGED <<hookLog, eventLog, adapterLog>>
    /\ UNCHANGED <<registryVars, managerVars>>
    /\ UNCHANGED <<subscriberVars, moduleManager, adapters, adaptersInitialized,
                    adapterCall>>

\* --------------------------------------------------------------- initAll
\* Mutant of IsModuleEnabled: supports is not consulted.
IsModuleEnabledNoSupports(d) == ~(d.enabled = "false")

\* isModuleEnabled: an absent predicate counts as true.
IsModuleEnabled(d) == ~(d.enabled = "false") /\ ~(d.supports = "false")

\* definition.factory(context): the instance carries the manifest and the hooks.
InstanceOf(d) ==
    [id |-> d.id, activationMode |-> d.activationMode, hooks |-> d.hooks]

\* Mutant of AutoActivates: the wrong mode is auto-activated.
AutoActivatesParallel(inst) == GetActivationMode(inst) = "parallel"

\* initAll activates a module right after its onInit when it is a background one.
AutoActivates(inst) == GetActivationMode(inst) = "background"

\* The payload of modules:ready: Array.from(this.instances.keys()).
ReadyEvent(t, insts) ==
    Event(t, "modules:ready", NoId, Null, NoId, <<>>, Keys(insts))

\* The top of initAll's loop over `todo`: suspend on isModuleEnabled of the next
\* definition, or leave the loop, emit modules:ready and return.
InitAllIterate(t, todo, below, base) ==
    IF todo = <<>>
    THEN /\ eventLog' = Append(eventLog, ReadyEvent(t, instances))
         /\ uiSnapshot' = UiAfterEvent(uiSnapshot, activeExclusiveModuleId,
                                       activeModuleIds)
         /\ tasks' = [tasks EXCEPT ![t] = Settle(base, below)]
    ELSE /\ tasks' = [tasks EXCEPT ![t] =
                Settle(base, Append(below,
                    Frame("initAll", "isModuleEnabled", NoInstance, NoInstance,
                          todo, 0)))]
         /\ UNCHANGED <<eventLog, uiSnapshot>>

\* initAll(): definitions = this.registry.list() is a copy taken at the call.
StartInitAll(t) ==
    /\ CanStart(t)
    /\ InitAllIterate(t, definitions, <<>>, NewTask("initAll", NoId, <<>>))
    /\ UNCHANGED <<registryVars, managerVars, hookLog>>
    /\ UNCHANGED <<busVars, kernelVars>>

\* isModuleEnabled has resolved: skip the definition, or call its factory,
\* store the instance and suspend on onInit.
InitAllAfterIsEnabled(t) ==
    /\ Running(t, "initAll", "isModuleEnabled")
    /\ LET d == Head(Top(t).todo) IN
       IF ~IsModuleEnabled(d)
       THEN /\ InitAllIterate(t, Tail(Top(t).todo), Below(t), tasks[t])
            /\ UNCHANGED <<managerVars, hookLog>>
       ELSE LET inst == InstanceOf(d) IN
            /\ instances' = MapSet(instances, inst)
            /\ hookLog' = InvokeOn(Append(hookLog, HookEntry(t, "factory", d.id)),
                                   t, inst, "onInit")
            /\ tasks' = [tasks EXCEPT ![t] =
                   Settle(tasks[t], Append(Below(t),
                       Frame("initAll", "onInit", inst, NoInstance, Top(t).todo, 0)))]
            /\ UNCHANGED <<activeModuleIds, activeExclusiveModuleId, eventLog,
                           uiSnapshot>>
    /\ UNCHANGED registryVars
    /\ UNCHANGED <<busVars, kernelVars>>

\* onInit has settled: a background module is activated at once.
InitAllAfterOnInit(t) ==
    /\ Running(t, "initAll", "onInit")
    /\ \E ok \in Outcomes(Top(t).inst, "onInit") :
         IF ~ok
         THEN /\ tasks' = Reject(t, "onInit", Top(t).inst.id)
              /\ UNCHANGED <<managerVars, hookLog, eventLog, uiSnapshot>>
         ELSE IF AutoActivates(Top(t).inst)
         THEN /\ ActivateEnter(t, Top(t).inst.id,
                     Append(Below(t),
                         Frame("initAll", "activate", Top(t).inst, NoInstance,
                               Top(t).todo, 0)),
                     tasks[t])
              /\ UNCHANGED uiSnapshot
         ELSE /\ InitAllIterate(t, Tail(Top(t).todo), Below(t), tasks[t])
              /\ UNCHANGED <<managerVars, hookLog>>
    /\ UNCHANGED registryVars
    /\ UNCHANGED <<busVars, kernelVars>>

\* `await this.activate(id)` has resolved: on to the next definition.
InitAllAfterActivate(t) ==
    /\ Running(t, "initAll", "activate")
    /\ InitAllIterate(t, Tail(Top(t).todo), Below(t), tasks[t])
    /\ UNCHANGED <<registryVars, managerVars, hookLog>>
    /\ UNCHANGED <<busVars, kernelVars>>

\* ------------------------------------------------------------ disposeAll
\* Mutant of DisposeCleared: the active set is not cleared.
DisposeClearedKeepsActive ==
    [instances |-> <<>>, activeModuleIds |-> activeModuleIds,
     activeExclusiveModuleId |-> NoId]

\* The state disposeAll leaves: instances.clear(), activeModuleIds.clear(),
\* activeExclusiveModuleId = null.
DisposeCleared ==
    [instances |-> <<>>, activeModuleIds |-> <<>>, activeExclusiveModuleId |-> NoId]

\* disposeAll iterates this.instances.values(), a live iterator: idx is its
\* position.  Invoke onDispose of the instance at idx and suspend on it, or,
\* past the end, clear the instance and activation state and return.
DisposeIterate(t, idx, below, base) ==
    IF idx > Len(instances)
    THEN /\ instances' = DisposeCleared.instances
         /\ activeModuleIds' = DisposeCleared.activeModuleIds
         /\ activeExclusiveModuleId' = DisposeCleared.activeExclusiveModuleId
         /\ tasks' = [tasks EXCEPT ![t] = Settle(base, below)]
         /\ UNCHANGED hookLog
    ELSE /\ hookLog' = Invoke(t, instances[idx], "onDispose")
         /\ tasks' = [tasks EXCEPT ![t] =
                Settle(base, Append(below,
                    Frame("disposeAll", "onDispose", instances[idx], NoInstance,
                          <<>>, idx)))]
         /\ UNCHANGED managerVars

StartDisposeAll(t) ==
    /\ CanStart(t)
    /\ DisposeIterate(t, 1, <<>>, NewTask("disposeAll", NoId, <<>>))
    /\ UNCHANGED <<registryVars, eventLog>>
    /\ UNCHANGED <<subscriberVars, kernelVars>>

DisposeAllAfterOnDispose(t) ==
    /\ Running(t, "disposeAll", "onDispose")
    /\ \E ok \in Outcomes(Top(t).inst, "onDispose") :
         IF ok
         THEN DisposeIterate(t, Top(t).idx + 1, Below(t), tasks[t])
         ELSE /\ tasks' = Reject(t, "onDispose", Top(t).inst.id)
              /\ UNCHANGED <<managerVars, hookLog>>
    /\ UNCHANGED <<registryVars, eventLog>>
    /\ UNCHANGED <<subscriberVars, kernelVars>>

\* ------------------------------------------------ deactivate, deactivateAll
\* The module:deactivated payload: the state that results from the removal.
DeactivatedEvent(t, moduleId, excl, active) ==
    Event(t, "module:deactivated", moduleId, Null, excl, active, <<>>)

\* The state deactivate leaves: the module out of the active set, and the
\* exclusive slot cleared if the module held it.
ActiveAfterDeactivateKept(active, moduleId) == active
ActiveAfterDeactivate(active, moduleId) == SetDelete(active, moduleId)
ExclusiveAfterDeactivateAlways(excl, moduleId) == NoId
ExclusiveAfterDeactivate(excl, moduleId) == IF excl = moduleId THEN NoId ELSE excl

\* deactivate(moduleId) from its call to its await: a module that is not active
\* (or has no instance) is left alone; an active one has onDeactivate invoked.
DeactivateEnter(t, moduleId, below, base) ==
    IF ~MapHas(instances, moduleId) \/ moduleId \notin ToSet(activeModuleIds)
    THEN /\ tasks' = [tasks EXCEPT ![t] = Settle(base, below)]
         /\ UNCHANGED hookLog
    ELSE /\ hookLog' = Invoke(t, MapGet(instances, moduleId), "onDeactivate")
         /\ tasks' = [tasks EXCEPT ![t] =
                Settle(base, Append(below,
                    Frame("deactivate", "onDeactivate",
                          MapGet(instances, moduleId), NoInstance, <<>>, 0)))]

StartDeactivate(t, moduleId) ==
    /\ CanStart(t)
    /\ DeactivateEnter(t, moduleId, <<>>, NewTask("deactivate", moduleId, <<>>))
    /\ UNCHANGED <<registryVars, managerVars, eventLog>>
    /\ UNCHANGED <<subscriberVars, kernelVars>>

\* onDeactivate has settled: remove the module and emit module:deactivated.
DeactivateAfterOnDeactivate(t) ==
    /\ Running(t, "deactivate", "onDeactivate")
    /\ \E ok \in Outcomes(Top(t).inst, "onDeactivate") :
         IF ok
         THEN LET moduleId == Top(t).inst.id
                  active == ActiveAfterDeactivate(activeModuleIds, moduleId)
                  excl == ExclusiveAfterDeactivate(activeExclusiveModuleId,
                                                   moduleId) IN
              /\ activeModuleIds' = active
              /\ activeExclusiveModuleId' = excl
              /\ eventLog' = Append(eventLog,
                                    DeactivatedEvent(t, moduleId, excl, active))
              /\ uiSnapshot' = UiAfterEvent(uiSnapshot, excl, active)
              /\ tasks' = [tasks EXCEPT ![t] = Settle(tasks[t], Below(t))]
         ELSE /\ tasks' = Reject(t, "onDeactivate", Top(t).inst.id)
              /\ UNCHANGED <<activeModuleIds, activeExclusiveModuleId, eventLog,
                             uiSnapshot>>
    /\ UNCHANGED <<registryVars, instances, hookLog>>
    /\ UNCHANGED <<busVars, kernelVars>>

\* The bulk event of deactivateAll.
AllDeactivatedEvent(t, excl, active) ==
    Event(t, "modules:deactivated", NoId, Null, excl, active, <<>>)

\* deactivateAll's loop over the modules `todo` that were active at the call, in
\* no specified order: deactivate one and await it, or, with none left, emit
\* the bulk event and return.
DeactivateAllIterate(t, todo, below, base) ==
    IF todo = {}
    THEN /\ eventLog' = Append(eventLog,
                AllDeactivatedEvent(t, activeExclusiveModuleId, activeModuleIds))
         /\ tasks' = [tasks EXCEPT ![t] = Settle(base, below)]
         /\ UNCHANGED hookLog
    ELSE /\ \E moduleId \in todo :
              DeactivateEnter(t, moduleId,
                  Append(below,
                      Frame("deactivateAll", "deactivate", NoInstance, NoInstance,
                            todo \ {moduleId}, 0)),
                  base)
         /\ UNCHANGED eventLog

StartDeactivateAll(t) ==
    /\ CanStart(t)
    /\ DeactivateAllIterate(t, ToSet(activeModuleIds), <<>>,
                            NewTask("deactivateAll", NoId, <<>>))
    /\ UNCHANGED <<registryVars, managerVars>>
    /\ UNCHANGED <<subscriberVars, kernelVars>>

\* `await this.deactivate(id)` has resolved: on to the next module.
DeactivateAllAfterDeactivate(t) ==
    /\ Running(t, "deactivateAll", "deactivate")
    /\ DeactivateAllIterate(t, Top(t).todo, Below(t), tasks[t])
    /\ UNCHANGED <<registryVars, managerVars>>
    /\ UNCHANGED <<subscriberVars, kernelVars>>

\* getSnapshot(): the activation state, as arrays.
GetSnapshot ==
    [activeExclusiveModuleId |-> activeExclusiveModuleId,
     activeModuleIds |-> activeModuleIds]

\* ------------------------------------------------------------- the event bus
\* Calls a handler may make into the bus during one outermost emit (on, off,
\* unsubscribe, clear and nested emit together).
MaxHandlerOps == 1
\* Times the kept unsubscribe function is called.
MaxUnsubscribeCalls == 2

\* One side of the colon in EVENT_NAME_PATTERN: [a-z][a-z0-9-]*(\.[a-z0-9-]+)*
IsValidEventSide(s) ==
    /\ Len(s) > 0
    /\ s[1] \in Lower
    /\ \A i \in 1..Len(s) : s[i] \in SegmentChar \cup {"."}
    /\ s[Len(s)] # "."
    /\ \A i \in 1..(Len(s) - 1) : ~(s[i] = "." /\ s[i + 1] = ".")

\* isValidEventName: EVENT_NAME_PATTERN.test(event).  Neither side may hold a
\* colon, so the colon is the only one.
IsValidEventName(event) ==
    \E c \in 1..Len(event) :
        /\ event[c] = ":"
        /\ IsValidEventSide(SubSeq(event, 1, c - 1))
        /\ IsValidEventSide(SubSeq(event, c + 1, Len(event)))

\* listenerCount(event): listeners.get(event)?.size ?? 0.  A key whose set is
\* empty is deleted by off, so an absent key and an empty sequence are the same.
ListenerCount(ls, event) == Len(ls[event])

\* The listeners after on(event, handler): Set.add keeps a handler that is
\* already subscribed where it is.
OnResult(ls, event, handler) == [ls EXCEPT ![event] = SetAdd(@, handler)]

\* Mutant of OffResult: the handler stays subscribed.
OffResultKept(ls, event, handler) == ls

\* The listeners after off(event, handler).
OffResult(ls, event, handler) == [ls EXCEPT ![event] = SetDelete(@, handler)]

\* A caller outside the bus acts when no emit is executing; a handler acts
\* while it is being invoked.
MayCall ==
    IF dispatch = <<>> THEN TRUE
    ELSE /\ dispatch[Len(dispatch)].cur # NoHandler
         /\ handlerOps < MaxHandlerOps

\* A call from outside the bus starts afresh: what the previous outermost emit
\* did is forgotten.
CountedOps == IF dispatch = <<>> THEN 0 ELSE handlerOps + 1
KeptEmissions == IF dispatch = <<>> THEN <<>> ELSE emissions
\* A call a handler makes is logged under the emit that invoked the handler.
KeptBusLog ==
    IF dispatch = <<>> THEN <<>>
    ELSE Append(busLog, [emit |-> dispatch[Len(dispatch)].id, kind |-> "call",
                         handler |-> dispatch[Len(dispatch)].cur,
                         payload |-> Null])

\* on(event, handler); keep says whether the caller keeps the returned
\* unsubscribe function.
On(event, handler, keep) ==
    /\ MayCall
    /\ keep => dispatch = <<>>
    /\ listeners' = OnResult(listeners, event, handler)
    /\ held' = IF keep
               THEN [event |-> event, handler |-> handler,
                     countBefore |-> ListenerCount(listeners, event),
                     after |-> listeners'[event], calls |-> 0]
               ELSE held
    /\ handlerOps' = CountedOps
    /\ emissions' = KeptEmissions
    /\ busLog' = KeptBusLog
    /\ UNCHANGED dispatch
    /\ UNCHANGED nonBusVars

\* off(event, handler).
Off(event, handler) ==
    /\ MayCall
    /\ listeners' = OffResult(listeners, event, handler)
    /\ handlerOps' = CountedOps
    /\ emissions' = KeptEmissions
    /\ busLog' = KeptBusLog
    /\ UNCHANGED <<dispatch, held>>
    /\ UNCHANGED nonBusVars

\* The function on() returned: () => this.off(event, handler).
Unsubscribe ==
    /\ MayCall
    /\ held # NoClosure
    /\ held.calls < MaxUnsubscribeCalls
    /\ listeners' = OffResult(listeners, held.event, held.handler)
    /\ held' = [held EXCEPT !.calls = @ + 1]
    /\ handlerOps' = CountedOps
    /\ emissions' = KeptEmissions
    /\ busLog' = KeptBusLog
    /\ UNCHANGED dispatch
    /\ UNCHANGED nonBusVars

\* clear(): listeners.clear().
Clear ==
    /\ MayCall
    /\ listeners' = [e \in BusEvents |-> <<>>]
    /\ handlerOps' = CountedOps
    /\ emissions' = KeptEmissions
    /\ busLog' = KeptBusLog
    /\ UNCHANGED <<dispatch, held>>
    /\ UNCHANGED nonBusVars

\* Mutant of EmitSource: forEach runs over the live set.
EmitSourceLive(copy, live) == live

\* What emit iterates: handlersCopy, not the set in listeners.
EmitSource(copy, live) == copy

\* The handlers forEach has still to visit, in iteration order.
Pending(frame) ==
    SelectSeq(EmitSource(frame.copy, listeners[frame.event]),
              LAMBDA h : h \notin frame.visited)

BusEntry(id, kind, handler, payload) ==
    [emit |-> id, kind |-> kind, handler |-> handler, payload |-> payload]

\* emit(event, payload) up to its first handler: with no set for the event it
\* returns at once, otherwise it copies the set.  The kernel and the manager
\* call it with the names they hard-code, context.emitEvent with any string a
\* module passes.
Emit(event, payload) ==
    /\ MayCall
    /\ LET id == Len(KeptEmissions) + 1
           handlers == listeners[event] IN
       /\ emissions' = Append(KeptEmissions,
                              [event |-> event, payload |-> payload,
                               registered |-> handlers,
                               returned |-> handlers = <<>>])
       /\ dispatch' = IF handlers = <<>> THEN dispatch
                      ELSE Append(dispatch,
                                  [id |-> id, event |-> event, copy |-> handlers,
                                   visited |-> {}, cur |-> NoHandler])
    /\ handlerOps' = CountedOps
    /\ busLog' = KeptBusLog
    /\ UNCHANGED <<listeners, held>>
    /\ UNCHANGED nonBusVars

\* forEach calls the next handler with the payload.
HandlerInvoke ==
    /\ dispatch # <<>>
    /\ LET n == Len(dispatch)
           frame == dispatch[n] IN
       /\ frame.cur = NoHandler
       /\ Pending(frame) # <<>>
       /\ LET h == Head(Pending(frame)) IN
          /\ dispatch' = [dispatch EXCEPT ![n].cur = h,
                                          ![n].visited = @ \cup {h}]
          /\ busLog' = Append(busLog, BusEntry(frame.id, "invoke", h,
                                               emissions[frame.id].payload))
    /\ UNCHANGED <<listeners, emissions, held, handlerOps>>
    /\ UNCHANGED nonBusVars

\* The handler returns.
HandlerReturn ==
    /\ dispatch # <<>>
    /\ dispatch[Len(dispatch)].cur # NoHandler
    /\ dispatch' = [dispatch EXCEPT ![Len(dispatch)].cur = NoHandler]
    /\ UNCHANGED <<listeners, emissions, busLog, held, handlerOps>>
    /\ UNCHANGED nonBusVars

\* Mutant of AfterHandlerThrow: nothing catches the error, which unwinds every
\* emit that is executing.
AfterHandlerThrowUncaught(stack) == <<>>

\* The executing emits after a handler threw: the catch around the handler call
\* logs the error and forEach goes on.
AfterHandlerThrow(stack) == [stack EXCEPT ![Len(stack)].cur = NoHandler]

\* The handler throws.
HandlerThrow ==
    /\ dispatch # <<>>
    /\ LET frame == dispatch[Len(dispatch)] IN
       /\ frame.cur # NoHandler
       /\ busLog' = Append(busLog, BusEntry(frame.id, "error", frame.cur,
                                            emissions[frame.id].payload))
    /\ dispatch' = AfterHandlerThrow(dispatch)
    /\ UNCHANGED <<listeners, emissions, held, handlerOps>>
    /\ UNCHANGED nonBusVars

\* forEach is done: emit returns to its caller.
EmitReturn ==
    /\ dispatch # <<>>
    /\ LET frame == dispatch[Len(dispatch)] IN
       /\ frame.cur = NoHandler
       /\ Pending(frame) = <<>>
       /\ emissions' = [emissions EXCEPT ![frame.id].returned = TRUE]
    /\ dispatch' = SubSeq(dispatch, 1, Len(dispatch) - 1)
    /\ UNCHANGED <<listeners, busLog, held, handlerOps>>
    /\ UNCHANGED nonBusVars

\* -------------------------------------------------------- adapter registry
\* Mutant of AdapterRegisterOutcome: a registered id is not looked for.
AdapterRegisterOutcomeNoCheck(as, a) == "ok"

\* AdapterRegistry.register: the error it throws, or "ok".
AdapterRegisterOutcome(as, a) ==
    IF MapHas(as, a.id) THEN "DuplicateAdapter" ELSE "ok"

\* The adapters after register(a).
AdapterRegisterResult(as, a) ==
    IF AdapterRegisterOutcome(as, a) = "ok" THEN MapSet(as, a) ELSE as

\* adapter.supports(capability).
Supports(a, capability) == capability \in a.capabilities

\* findByCapability: list().find(adapter => adapter.supports(capability)).
RECURSIVE FindByCapability(_, _)
FindByCapability(as, capability) ==
    IF as = <<>> THEN NoAdapter
    ELSE IF Supports(Head(as), capability) THEN Head(as)
    ELSE FindByCapability(Tail(as), capability)

\* adapterRegistry.register(a), called on the registry itself.
AdapterRegister(a) ==
    /\ adapters' = AdapterRegisterResult(adapters, a)
    /\ adapterCall' = [op |-> "register", adapter |-> a, before |-> adapters,
                       error |-> IF AdapterRegisterOutcome(adapters, a) = "ok"
                                 THEN Null ELSE AdapterRegisterOutcome(adapters, a)]
    /\ UNCHANGED <<moduleManager, adaptersInitialized, adapterLog>>
    /\ UNCHANGED <<registryVars, managerVars, tasks, hookLog, eventLog, subscriberVars>>

\* adapterRegistry.unregister(adapterId): Map.delete.
AdapterUnregister(adapterId) ==
    /\ adapters' = SelectSeq(adapters, LAMBDA a : a.id # adapterId)
    /\ adapterCall' = [op |-> "unregister", adapter |-> NoAdapter,
                       before |-> adapters, error |-> Null]
    /\ UNCHANGED <<moduleManager, adaptersInitialized, adapterLog>>
    /\ UNCHANGED <<registryVars, managerVars, tasks, hookLog, eventLog, subscriberVars>>

\* ----------------------------------------------------------------- providers
\* Providers passed to one boot call.
MaxProviders == 2

\* A ModuleProvider: load() resolves to its definitions, or rejects.
Provider(id, defs) == [id |-> id, definitions |-> defs]
ProviderBuiltin == Provider(<<"builtin">>, <<DefA, DefG>>)
ProviderExtra == Provider(<<"extra">>, <<DefP>>)
\* A provider whose second definition has an invalid id.
ProviderBad == Provider(<<"bad">>, <<DefB, DefUpper>>)
Providers == {ProviderBuiltin, ProviderExtra, ProviderBad}
ProviderOf(id) == CHOOSE p \in Providers : p.id = id

\* The provider arrays boot is called with: distinct providers, in any order.
ProviderLists ==
    {ps \in UNION {[1..n -> Providers] : n \in 0..MaxProviders} :
        \A i, j \in 1..Len(ps) : i # j => ps[i] # ps[j]}

\* ------------------------------------------------------------------- kernel
\* new CoreKernel(): empty registries, no manager.
KernelInit ==
    /\ definitions = <<>>
    /\ viewResolver = "unset"
    /\ instances = <<>>
    /\ activeModuleIds = <<>>
    /\ activeExclusiveModuleId = NoId
    /\ tasks = [t \in Tasks |-> IdleTask]
    /\ hookLog = <<>>
    /\ eventLog = <<>>
    /\ BusInit
    /\ moduleManager = "none"
    /\ adapters = <<>>
    /\ adaptersInitialized = FALSE
    /\ adapterCall = NoAdapterCall
    /\ adapterLog = <<>>
    /\ uiSnapshot = NotMounted

BootFrame(pc, providers) ==
    Frame("boot", pc, NoInstance, NoInstance, providers, 0)

\* A call rejects with an error no hook threw.
RejectWith(t, error, hook, id) ==
    [tasks EXCEPT ![t].stack = <<>>, ![t].status = "rejected",
                  ![t].error = error,
                  ![t].failed = [hook |-> hook, id |-> id]]

\* adapterRegistry.register for each adapter of `as` in turn, stopping at the
\* first that throws.
RECURSIVE RegisterAdapters(_, _)
RegisterAdapters(registered, as) ==
    IF as = <<>> THEN [adapters |-> registered, error |-> Null]
    ELSE IF AdapterRegisterOutcome(registered, Head(as)) # "ok"
    THEN [adapters |-> registered,
          error |-> AdapterRegisterOutcome(registered, Head(as))]
    ELSE RegisterAdapters(AdapterRegisterResult(registered, Head(as)), Tail(as))

\* The device adapters initializeAdapters registers, in its order, given the
\* tools getDependencyStatus reports available.
DeviceAdapters == <<AndroidDeviceAdapter, IosDeviceAdapter, HarmonyOSDeviceAdapter>>
Available(deps) == SelectSeq(DeviceAdapters, LAMBDA a : a \in deps)

AdaptersEvent(t, name) ==
    [task |-> t, name |-> name,
     adapterIds |-> [i \in 1..Len(adapters) |-> adapters[i].id]]

\* Mutant of BootEnter: boot goes straight to the loader.
BootEnterSkipsAdapters(t, providers) ==
    /\ tasks' = [tasks EXCEPT ![t] =
           NewTask("boot", [i \in 1..Len(providers) |-> providers[i].id],
                   <<BootFrame("initializeAdapters", providers)>>)]
    /\ UNCHANGED <<registryVars, managerVars, hookLog, eventLog, subscriberVars, kernelVars>>

\* boot(providers) up to its first await: initializeAdapters returns at once
\* when the adapters are initialized, otherwise it awaits isTauriEnvironment.
BootEnter(t, providers) ==
    /\ tasks' = [tasks EXCEPT ![t] =
           NewTask("boot", [i \in 1..Len(providers) |-> providers[i].id],
                   <<BootFrame(IF adaptersInitialized THEN "initializeAdapters"
                               ELSE "isTauriEnvironment", providers)>>)]
    /\ UNCHANGED <<registryVars, managerVars, hookLog, eventLog, subscriberVars, kernelVars>>

\* boot(providers) on a kernel that has no manager yet.
StartBoot(t, providers) ==
    /\ CanStart(t)
    /\ moduleManager = "none"
    /\ BootEnter(t, providers)

\* boot(providers) on a kernel that has booted before.
BootAgain(t, providers) ==
    /\ CanStart(t)
    /\ moduleManager = "constructed"
    /\ BootEnter(t, providers)

AdapterEntry(t, hook, id) == [task |-> t, hook |-> hook, id |-> id]
\* adapter.initialize?.() / adapter.dispose?.(): an absent hook is not invoked.
InvokeAdapter(log, t, a, hook) ==
    IF hook \in AdapterHooks(a) THEN Append(log, AdapterEntry(t, hook, a.id))
    ELSE log
AdapterOutcomes(a, hook) ==
    IF hook \in AdapterHooks(a) THEN {TRUE, FALSE} ELSE {TRUE}

\* initializeAll's loop over the live iterator of `registered` (the adapters
\* as this step leaves them): invoke initialize of the adapter at idx and await
\* it, or, past the end, resolve to initializeAdapters, which awaits it.
InitializeIterate(t, idx, registered, providers, below, base) ==
    IF idx > Len(registered)
    THEN /\ tasks' = [tasks EXCEPT ![t] =
                Settle(base, Append(below, BootFrame("initializeAll", providers)))]
         /\ UNCHANGED adapterLog
    ELSE /\ adapterLog' = InvokeAdapter(adapterLog, t, registered[idx], "initialize")
         /\ tasks' = [tasks EXCEPT ![t] =
                Settle(base, Append(below,
                    [BootFrame("initialize", providers) EXCEPT !.idx = idx]))]

\* isTauriEnvironment has resolved: inside Tauri the system adapter is
\* registered and getDependencyStatus awaited, outside initializeAll is called.
BootAfterIsTauriEnvironment(t) ==
    /\ Running(t, "boot", "isTauriEnvironment")
    /\ \E tauri \in BOOLEAN :
         IF ~tauri
         THEN /\ InitializeIterate(t, 1, adapters, Top(t).todo, Below(t), tasks[t])
              /\ UNCHANGED adapters
         ELSE LET r == RegisterAdapters(adapters, <<TauriSystemAdapter>>) IN
              /\ adapters' = r.adapters
              /\ tasks' = IF r.error # Null
                          THEN RejectWith(t, r.error, "register", NoId)
                          ELSE [tasks EXCEPT ![t] =
                                  Settle(tasks[t], Append(Below(t),
                                      BootFrame("getDependencyStatus", Top(t).todo)))]
              /\ UNCHANGED adapterLog
    /\ UNCHANGED <<moduleManager, adaptersInitialized, adapterCall>>
    /\ UNCHANGED <<registryVars, managerVars, hookLog, eventLog, subscriberVars>>

\* getDependencyStatus has resolved: an adapter is registered for each tool
\* that is available, then initializeAll is called.
BootAfterGetDependencyStatus(t) ==
    /\ Running(t, "boot", "getDependencyStatus")
    /\ \E deps \in SUBSET ToSet(DeviceAdapters) :
         LET r == RegisterAdapters(adapters, Available(deps)) IN
         /\ adapters' = r.adapters
         /\ IF r.error # Null
            THEN /\ tasks' = RejectWith(t, r.error, "register", NoId)
                 /\ UNCHANGED adapterLog
            ELSE InitializeIterate(t, 1, r.adapters, Top(t).todo, Below(t), tasks[t])
    /\ UNCHANGED <<moduleManager, adaptersInitialized, adapterCall>>
    /\ UNCHANGED <<registryVars, managerVars, hookLog, eventLog, subscriberVars>>

\* An adapter's initialize has settled: on to the next adapter, or, if it
\* threw, initializeAll, initializeAdapters and their caller reject.
InitializeAllAfterInitialize(t) ==
    /\ Running(t, "boot", "initialize")
    /\ Top(t).idx <= Len(adapters)
    /\ \E ok \in AdapterOutcomes(adapters[Top(t).idx], "initialize") :
         IF ok
         THEN InitializeIterate(t, Top(t).idx + 1, adapters, Top(t).todo,
                                Below(t), tasks[t])
         ELSE /\ tasks' = RejectWith(t, "AdapterHookFailure", "initialize", NoId)
              /\ UNCHANGED adapterLog
    /\ UNCHANGED <<moduleManager, adapters, adaptersInitialized, adapterCall>>
    /\ UNCHANGED <<registryVars, managerVars, hookLog, eventLog, subscriberVars>>

\* initializeAll has resolved: the flag is set and adapters:initialized
\* emitted; initializeAdapters returns, to boot, which awaits it, or to the
\* caller of initializeAdapters.
BootAfterInitializeAll(t) ==
    /\ Running(t, "boot", "initializeAll")
    /\ adaptersInitialized' = TRUE
    /\ eventLog' = Append(eventLog, AdaptersEvent(t, "adapters:initialized"))
    /\ tasks' = [tasks EXCEPT ![t] =
           IF tasks[t].op = "initializeAdapters"
           THEN Settle(tasks[t], Below(t))
           ELSE Settle(tasks[t], Append(Below(t),
                    BootFrame("initializeAdapters", Top(t).todo)))]
    /\ UNCHANGED <<moduleManager, adapters, adapterCall, adapterLog>>
    /\ UNCHANGED <<registryVars, managerVars, hookLog, subscriberVars>>

\* registry.register for each definition in turn, stopping at the first that
\* throws.
RECURSIVE RegisterAll(_, _, _)
RegisterAll(defs, resolver, ds) ==
    IF ds = <<>> THEN [definitions |-> defs, error |-> Null]
    ELSE IF RegisterOutcome(defs, resolver, Head(ds)) # "ok"
    THEN [definitions |-> defs, error |-> RegisterOutcome(defs, resolver, Head(ds))]
    ELSE RegisterAll(MapSet(defs, Head(ds)), resolver, Tail(ds))

\* Mutant of LoadError: the loader goes on to the next provider.
LoadErrorSwallowed(loaded, registered) == Null

\* What loadFromProviders throws for one provider: its load's rejection or the
\* error of the registration that failed; nothing is caught.
LoadError(loaded, registered) ==
    IF ~loaded THEN "ProviderLoadFailure" ELSE registered.error

\* The top of loadFromProviders' loop: call load() of the next provider and
\* await it, or return to boot, which awaits loadFromProviders.
LoadIterate(t, providers, below, base) ==
    IF providers = <<>>
    THEN /\ tasks' = [tasks EXCEPT ![t] =
                Settle(base, Append(below, BootFrame("loadFromProviders", <<>>)))]
         /\ UNCHANGED hookLog
    ELSE /\ hookLog' = Append(hookLog, HookEntry(t, "load", Head(providers).id))
         /\ tasks' = [tasks EXCEPT ![t] =
                Settle(base, Append(below, BootFrame("load", providers)))]

\* initializeAdapters has resolved: loadFromProviders starts.
BootAfterInitializeAdapters(t) ==
    /\ Running(t, "boot", "initializeAdapters")
    /\ LoadIterate(t, Top(t).todo, Below(t), tasks[t])
    /\ UNCHANGED <<registryVars, managerVars, eventLog, subscriberVars, kernelVars>>

\* provider.load() has settled: its definitions are registered one by one.
BootAfterLoad(t) ==
    /\ Running(t, "boot", "load")
    /\ \E loaded \in BOOLEAN :
         LET provider == Head(Top(t).todo)
             registered ==
                 IF loaded
                 THEN RegisterAll(definitions, viewResolver, provider.definitions)
                 ELSE [definitions |-> definitions, error |-> Null]
             failure == IF ~loaded THEN "loadRejected"
                        ELSE IF registered.error # Null THEN "registerThrew"
                        ELSE Null
             logged == IF failure = Null THEN hookLog
                       ELSE Append(hookLog, HookEntry(t, failure, provider.id)) IN
         /\ definitions' = registered.definitions
         /\ IF LoadError(loaded, registered) # Null
            THEN /\ tasks' = RejectWith(t, LoadError(loaded, registered),
                                        "load", provider.id)
                 /\ hookLog' = logged
            ELSE IF Tail(Top(t).todo) = <<>>
            THEN /\ tasks' = [tasks EXCEPT ![t] =
                        Settle(tasks[t],
                               Append(Below(t), BootFrame("loadFromProviders", <<>>)))]
                 /\ hookLog' = logged
            ELSE /\ hookLog' = Append(logged,
                        HookEntry(t, "load", Head(Tail(Top(t).todo)).id))
                 /\ tasks' = [tasks EXCEPT ![t] =
                        Settle(tasks[t],
                               Append(Below(t), BootFrame("load", Tail(Top(t).todo))))]
    /\ UNCHANGED <<viewResolver, managerVars, eventLog, subscriberVars, kernelVars>>

\* loadFromProviders has resolved: the manager is constructed and initAll
\* called.
BootAfterLoadFromProviders(t) ==
    /\ Running(t, "boot", "loadFromProviders")
    /\ moduleManager' = "constructed"
    /\ instances' = <<>>
    /\ activeModuleIds' = <<>>
    /\ activeExclusiveModuleId' = NoId
    /\ InitAllIterate(t, definitions, Append(Below(t), BootFrame("initAll", <<>>)),
                      tasks[t])
    /\ UNCHANGED <<adapters, adaptersInitialized, adapterCall, adapterLog>>
    /\ UNCHANGED <<registryVars, hookLog, busVars>>

\* initAll has resolved: boot returns.
BootAfterInitAll(t) ==
    /\ Running(t, "boot", "initAll")
    /\ tasks' = [tasks EXCEPT ![t] = Settle(tasks[t], Below(t))]
    /\ UNCHANGED <<registryVars, managerVars, hookLog, eventLog, subscriberVars, kernelVars>>

\* ------------------------------------------------------ adapter lifecycle
\* getAdapterRegistry().register(adapter), by a host, before the adapters are
\* initialized.
RegisterCustomAdapter(a) ==
    /\ \A u \in Tasks : tasks[u].status = "idle"
    /\ ~adaptersInitialized
    /\ ~MapHas(adapters, a.id)
    /\ AdapterRegister(a)

\* A caller of the kernel that does not wait for the calls in flight.
MayOverlapAdapters(t) ==
    /\ tasks[t].status = "idle"
    /\ Len(adapterLog) + Len(eventLog) < MaxLogged

\* initializeAdapters(): returns at once when the flag is set, otherwise awaits
\* isTauriEnvironment.  Its frames are those of boot, which awaits it.
OverlappingInitializeAdapters(t) ==
    /\ MayOverlapAdapters(t)
    /\ tasks' = [tasks EXCEPT ![t] =
           IF adaptersInitialized
           THEN [NewTask("initializeAdapters", NoId, <<>>) EXCEPT !.status = "resolved"]
           ELSE NewTask("initializeAdapters", NoId,
                        <<BootFrame("isTauriEnvironment", <<>>)>>)]
    /\ UNCHANGED <<registryVars, managerVars, hookLog, eventLog, subscriberVars, kernelVars>>

\* boot([]), called whatever else is in flight.
OverlappingBoot(t) ==
    /\ MayOverlapAdapters(t)
    /\ BootEnter(t, <<>>)

\* disposeAll's loop over the live iterator of the adapters: invoke dispose of
\* the adapter at idx and await it, or, past the end, resolve to
\* disposeAdapters, which awaits it.
DisposeAdaptersIterate(t, idx, below, base) ==
    IF idx > Len(adapters)
    THEN /\ tasks' = [tasks EXCEPT ![t] =
                Settle(base, Append(below,
                    Frame("disposeAdapters", "disposeAll", NoInstance, NoInstance,
                          <<>>, 0)))]
         /\ UNCHANGED adapterLog
    ELSE /\ adapterLog' = InvokeAdapter(adapterLog, t, adapters[idx], "dispose")
         /\ tasks' = [tasks EXCEPT ![t] =
                Settle(base, Append(below,
                    Frame("disposeAdapters", "dispose", NoInstance, NoInstance,
                          <<>>, idx)))]

\* disposeAdapters(), called whatever else is in flight.
OverlappingDisposeAdapters(t) ==
    /\ MayOverlapAdapters(t)
    /\ DisposeAdaptersIterate(t, 1, <<>>, NewTask("disposeAdapters", NoId, <<>>))
    /\ UNCHANGED <<moduleManager, adapters, adaptersInitialized, adapterCall>>
    /\ UNCHANGED <<registryVars, managerVars, hookLog, eventLog, subscriberVars>>

\* An adapter's dispose has settled.
DisposeAllAfterDispose(t) ==
    /\ Running(t, "disposeAdapters", "dispose")
    /\ Top(t).idx <= Len(adapters)
    /\ \E ok \in AdapterOutcomes(adapters[Top(t).idx], "dispose") :
         IF ok
         THEN DisposeAdaptersIterate(t, Top(t).idx + 1, Below(t), tasks[t])
         ELSE /\ tasks' = RejectWith(t, "AdapterHookFailure", "dispose", NoId)
              /\ UNCHANGED adapterLog
    /\ UNCHANGED <<moduleManager, adapters, adaptersInitialized, adapterCall>>
    /\ UNCHANGED <<registryVars, managerVars, hookLog, eventLog, subscriberVars>>

\* disposeAll has resolved: the flag is cleared and adapters:disposed emitted.
\* The adapters stay registered.
DisposeAdaptersAfterDisposeAll(t) ==
    /\ Running(t, "disposeAdapters", "disposeAll")
    /\ adaptersInitialized' = FALSE
    /\ eventLog' = Append(eventLog, AdaptersEvent(t, "adapters:disposed"))
    /\ tasks' = [tasks EXCEPT ![t] = Settle(tasks[t], Below(t))]
    /\ UNCHANGED <<moduleManager, adapters, adapterCall, adapterLog>>
    /\ UNCHANGED <<registryVars, managerVars, hookLog, subscriberVars>>

\* Mutant of ForwardWithoutManager: the call on the missing manager throws.
ForwardWithoutManagerThrows(task) ==
    [task EXCEPT !.status = "rejected", !.error = "TypeError"]

\* this.moduleManager?.method(): with no manager the call is skipped and the
\* kernel's method resolves.
ForwardWithoutManager(task) == [task EXCEPT !.status = "resolved"]

NotForwarded(t, op, moduleId) ==
    /\ CanStart(t)
    /\ tasks' = [tasks EXCEPT ![t] = ForwardWithoutManager(NewTask(op, moduleId, <<>>))]
    /\ UNCHANGED <<registryVars, managerVars, hookLog, eventLog, subscriberVars, kernelVars>>

\* kernel.activateModule(moduleId).
ActivateModule(t, moduleId) ==
    IF moduleManager = "none" THEN NotForwarded(t, "activateModule", moduleId)
    ELSE StartActivate(t, moduleId)

\* kernel.deactivateModule(moduleId).
DeactivateModule(t, moduleId) ==
    IF moduleManager = "none" THEN NotForwarded(t, "deactivateModule", moduleId)
    ELSE StartDeactivate(t, moduleId)

\* kernel.deactivateAllModules().
DeactivateAllModules(t) ==
    IF moduleManager = "none" THEN NotForwarded(t, "deactivateAllModules", NoId)
    ELSE StartDeactivateAll(t)

\* The display names of the modules (ModuleManifest.name).
ModuleName(id) ==
    IF id = IdA THEN <<"S", "c", "r", "e", "e", "n", "s", "h", "o", "t">>
    ELSE IF id = IdG THEN <<"M", "o", "n", "i", "t", "o", "r">>
    ELSE IF id = IdP THEN <<"J", "s", "o", "n">>
    ELSE IF id = IdB THEN <<"B", "a", "s", "e", "6", "4">>
    ELSE id

\* definition.manifest.
Manifest(d) == [id |-> d.id, name |-> ModuleName(d.id)]

\* kernel.getSnapshot().
KernelGetSnapshot ==
    [adapters |-> [adapterIds |-> [i \in 1..Len(adapters) |-> adapters[i].id],
                   platforms |-> [i \in 1..Len(adapters) |-> adapters[i].platform]],
     modules |->
        [activeExclusiveModuleId |->
             IF moduleManager = "none" THEN NoId
             ELSE GetSnapshot.activeExclusiveModuleId,
         activeModuleIds |->
             IF moduleManager = "none" THEN <<>> ELSE GetSnapshot.activeModuleIds,
         manifests |-> [i \in 1..Len(definitions) |-> Manifest(definitions[i])]]]

\* ------------------------------------------------------------ specification
Next ==
    \/ \E t \in Tasks, d \in LateDefinitions : Register(t, d)
    \/ SetViewResolver
    \/ \E t \in Tasks : StartInitAll(t)
    \/ \E t \in Tasks : InitAllAfterIsEnabled(t)
    \/ \E t \in Tasks : InitAllAfterOnInit(t)
    \/ \E t \in Tasks : InitAllAfterActivate(t)
    \/ \E t \in Tasks, moduleId \in ModuleIds : StartActivate(t, moduleId)
    \/ \E t \in Tasks : ActivateAfterOnDeactivate(t)
    \/ \E t \in Tasks : ActivateAfterOnActivate(t)
    \/ \E t \in Tasks, moduleId \in ModuleIds : StartDeactivate(t, moduleId)
    \/ \E t \in Tasks : DeactivateAfterOnDeactivate(t)
    \/ \E t \in Tasks : StartDeactivateAll(t)
    \/ \E t \in Tasks : DeactivateAllAfterDeactivate(t)
    \/ \E t \in Tasks : StartDisposeAll(t)
    \/ \E t \in Tasks : DisposeAllAfterOnDispose(t)
    \/ \E t \in Tasks : Return(t)

Spec == Init /\ [][Next]_vars

\* The event bus with handlers that call back into it; no unsubscribe function
\* is kept.
BusNext ==
    \/ \E e \in BusEvents, h \in Handlers : On(e, h, FALSE)
    \/ \E e \in BusEvents, h \in Handlers : Off(e, h)
    \/ Clear
    \/ \E e \in BusEvents, p \in Payloads : Emit(e, p)
    \/ HandlerInvoke
    \/ HandlerReturn
    \/ HandlerThrow
    \/ EmitReturn

BusSpec == Init /\ [][BusNext]_vars

\* The event bus with callers that keep the unsubscribe function on() returns;
\* every call into the bus comes from outside a handler.
SubscriptionNext ==
    \/ \E e \in BusEvents, h \in Handlers, keep \in BOOLEAN :
          dispatch = <<>> /\ On(e, h, keep)
    \/ \E e \in BusEvents, h \in Handlers : dispatch = <<>> /\ Off(e, h)
    \/ dispatch = <<>> /\ Unsubscribe
    \/ dispatch = <<>> /\ Clear
    \/ \E e \in BusEvents, p \in Payloads : dispatch = <<>> /\ Emit(e, p)
    \/ HandlerInvoke
    \/ HandlerReturn
    \/ HandlerThrow
    \/ EmitReturn

SubscriptionSpec == Init /\ [][SubscriptionNext]_vars

\* The kernel from its construction: boot, then the calls it forwards to the
\* manager.
KernelNext ==
    \/ SetViewResolver
    \/ \E t \in Tasks, providers \in ProviderLists : StartBoot(t, providers)
    \/ \E t \in Tasks : BootAfterIsTauriEnvironment(t)
    \/ \E t \in Tasks : BootAfterGetDependencyStatus(t)
    \/ \E t \in Tasks : InitializeAllAfterInitialize(t)
    \/ \E t \in Tasks : BootAfterInitializeAll(t)
    \/ \E t \in Tasks : BootAfterInitializeAdapters(t)
    \/ \E t \in Tasks : BootAfterLoad(t)
    \/ \E t \in Tasks : BootAfterLoadFromProviders(t)
    \/ \E t \in Tasks : BootAfterInitAll(t)
    \/ \E t \in Tasks : InitAllAfterIsEnabled(t)
    \/ \E t \in Tasks : InitAllAfterOnInit(t)
    \/ \E t \in Tasks : InitAllAfterActivate(t)
    \/ \E t \in Tasks, moduleId \in ModuleIds : ActivateModule(t, moduleId)
    \/ \E t \in Tasks : ActivateAfterOnDeactivate(t)
    \/ \E t \in Tasks : ActivateAfterOnActivate(t)
    \/ \E t \in Tasks, moduleId \in ModuleIds : DeactivateModule(t, moduleId)
    \/ \E t \in Tasks : DeactivateAfterOnDeactivate(t)
    \/ \E t \in Tasks : DeactivateAllModules(t)
    \/ \E t \in Tasks : DeactivateAllAfterDeactivate(t)
    \/ \E t \in Tasks : Return(t)

KernelSpec == KernelInit /\ [][KernelNext]_vars

\* A kernel whose host registers adapters of its own, boots it and activates
\* modules, one call at a time.
BootNext ==
    \/ \E a \in CustomAdapters : RegisterCustomAdapter(a)
    \/ \E t \in Tasks, providers \in ProviderLists : StartBoot(t, providers)
    \/ \E t \in Tasks : BootAfterIsTauriEnvironment(t)
    \/ \E t \in Tasks : BootAfterGetDependencyStatus(t)
    \/ \E t \in Tasks : InitializeAllAfterInitialize(t)
    \/ \E t \in Tasks : BootAfterInitializeAll(t)
    \/ \E t \in Tasks : BootAfterInitializeAdapters(t)
    \/ \E t \in Tasks : BootAfterLoad(t)
    \/ \E t \in Tasks : BootAfterLoadFromProviders(t)
    \/ \E t \in Tasks : BootAfterInitAll(t)
    \/ \E t \in Tasks : InitAllAfterIsEnabled(t)
    \/ \E t \in Tasks : InitAllAfterOnInit(t)
    \/ \E t \in Tasks : InitAllAfterActivate(t)
    \/ \E t \in Tasks, moduleId \in ModuleIds : ActivateModule(t, moduleId)
    \/ \E t \in Tasks : ActivateAfterOnDeactivate(t)
    \/ \E t \in Tasks : ActivateAfterOnActivate(t)
    \/ \E t \in Tasks : Return(t)

BootSpec == KernelInit /\ [][BootNext]_vars

\* A kernel that is booted more than once, one call at a time.
RebootNext ==
    \/ \E t \in Tasks, providers \in ProviderLists : StartBoot(t, providers)
    \/ \E t \in Tasks, providers \in ProviderLists : BootAgain(t, providers)
    \/ \E t \in Tasks : BootAfterIsTauriEnvironment(t)
    \/ \E t \in Tasks : BootAfterGetDependencyStatus(t)
    \/ \E t \in Tasks : InitializeAllAfterInitialize(t)
    \/ \E t \in Tasks : BootAfterInitializeAll(t)
    \/ \E t \in Tasks : BootAfterInitializeAdapters(t)
    \/ \E t \in Tasks : BootAfterLoad(t)
    \/ \E t \in Tasks : BootAfterLoadFromProviders(t)
    \/ \E t \in Tasks : BootAfterInitAll(t)
    \/ \E t \in Tasks : InitAllAfterIsEnabled(t)
    \/ \E t \in Tasks : InitAllAfterOnInit(t)
    \/ \E t \in Tasks : InitAllAfterActivate(t)
    \/ \E t \in Tasks, moduleId \in ModuleIds : ActivateModule(t, moduleId)
    \/ \E t \in Tasks : ActivateAfterOnDeactivate(t)
    \/ \E t \in Tasks : ActivateAfterOnActivate(t)
    \/ \E t \in Tasks : Return(t)

RebootSpec == KernelInit /\ [][RebootNext]_vars

\* ------------------------------------------------------------------ UI hook
\* A component that uses useModuleManagerSnapshot(kernel) is mounted: the
\* effect stores kernel.getSnapshot().modules and subscribes its handlers.
UiMount ==
    /\ ~uiSnapshot.mounted
    /\ uiSnapshot' =
           [mounted |-> TRUE,
            activeExclusiveModuleId |-> KernelGetSnapshot.modules.activeExclusiveModuleId,
            activeModuleIds |-> KernelGetSnapshot.modules.activeModuleIds]
    /\ UNCHANGED <<registryVars, managerVars, tasks, hookLog, eventLog, busVars,
                   kernelVars>>

\* The kernel with a component that shows its activation state.
UiNext ==
    \/ UiMount
    \/ \E t \in Tasks, providers \in ProviderLists : StartBoot(t, providers)
    \/ \E t \in Tasks : BootAfterIsTauriEnvironment(t)
    \/ \E t \in Tasks : BootAfterGetDependencyStatus(t)
    \/ \E t \in Tasks : InitializeAllAfterInitialize(t)
    \/ \E t \in Tasks : BootAfterInitializeAll(t)
    \/ \E t \in Tasks : BootAfterInitializeAdapters(t)
    \/ \E t \in Tasks : BootAfterLoad(t)
    \/ \E t \in Tasks : BootAfterLoadFromProviders(t)
    \/ \E t \in Tasks : BootAfterInitAll(t)
    \/ \E t \in Tasks : InitAllAfterIsEnabled(t)
    \/ \E t \in Tasks : InitAllAfterOnInit(t)
    \/ \E t \in Tasks : InitAllAfterActivate(t)
    \/ \E t \in Tasks, moduleId \in ModuleIds : ActivateModule(t, moduleId)
    \/ \E t \in Tasks : ActivateAfterOnDeactivate(t)
    \/ \E t \in Tasks : ActivateAfterOnActivate(t)
    \/ \E t \in Tasks, moduleId \in ModuleIds : DeactivateModule(t, moduleId)
    \/ \E t \in Tasks : DeactivateAfterOnDeactivate(t)
    \/ \E t \in Tasks : DeactivateAllModules(t)
    \/ \E t \in Tasks : DeactivateAllAfterDeactivate(t)
    \/ \E t \in Tasks : Return(t)

UiSpec == KernelInit /\ [][UiNext]_vars

\* The adapters of the kernel under callers that do not wait for one another:
\* initializeAdapters, boot (with no provider) and disposeAdapters.
LifecycleNext ==
    \/ RegisterCustomAdapter(CustomAdapter)
    \/ \E t \in Tasks : OverlappingInitializeAdapters(t)
    \/ \E t \in Tasks : OverlappingBoot(t)
    \/ \E t \in Tasks : OverlappingDisposeAdapters(t)
    \/ \E t \in Tasks : BootAfterIsTauriEnvironment(t)
    \/ \E t \in Tasks : BootAfterGetDependencyStatus(t)
    \/ \E t \in Tasks : InitializeAllAfterInitialize(t)
    \/ \E t \in Tasks : BootAfterInitializeAll(t)
    \/ \E t \in Tasks : BootAfterInitializeAdapters(t)
    \/ \E t \in Tasks : BootAfterLoadFromProviders(t)
    \/ \E t \in Tasks : BootAfterInitAll(t)
    \/ \E t \in Tasks : DisposeAllAfterDispose(t)
    \/ \E t \in Tasks : DisposeAdaptersAfterDisposeAll(t)
    \/ \E t \in Tasks : Return(t)

LifecycleSpec == KernelInit /\ [][LifecycleNext]_vars

\* The adapter registry alone.
AdapterNext ==
    \/ \E a \in PlatformAdapters \cup {IosTwinAdapter} : AdapterRegister(a)
    \/ \E a \in PlatformAdapters : AdapterUnregister(a.id)

AdapterSpec == Init /\ [][AdapterNext]_vars

\* ------------------------------------------------------- overlapping calls

\* The manager once initAll() has resolved with no hook throwing: an instance
\* of every enabled definition, the background ones active.
ReadyInstances ==
    LET enabled == SelectSeq(BootDefinitions, IsModuleEnabled) IN
    [i \in 1..Len(enabled) |-> InstanceOf(enabled[i])]
ReadyActive == Keys(SelectSeq(ReadyInstances, AutoActivates))

ManagerReady ==
    /\ definitions = BootDefinitions
    /\ viewResolver = "unset"
    /\ instances = ReadyInstances
    /\ activeModuleIds = ReadyActive
    /\ activeExclusiveModuleId = NoId
    /\ tasks = [t \in Tasks |-> IdleTask]
    /\ hookLog = <<>>
    /\ eventLog = <<>>
    /\ BusInit
    /\ KernelBooted
    /\ uiSnapshot = NotMounted

\* A caller that does not wait for the calls in flight: the call starts while
\* another is suspended at an await.
MayOverlap(t) == tasks[t].status = "idle" /\ Len(hookLog) < MaxLogged

\* activate(moduleId), called whatever else is in flight.
OverlappingActivate(t, moduleId) ==
    /\ MayOverlap(t)
    /\ ActivateEnter(t, moduleId, <<>>, NewTask("activate", moduleId, <<>>))
    /\ UNCHANGED registryVars
    /\ UNCHANGED <<subscriberVars, kernelVars>>

\* disposeAll(), called whatever else is in flight.
OverlappingDisposeAll(t) ==
    /\ MayOverlap(t)
    /\ DisposeIterate(t, 1, <<>>, NewTask("disposeAll", NoId, <<>>))
    /\ UNCHANGED <<registryVars, eventLog>>
    /\ UNCHANGED <<subscriberVars, kernelVars>>

OverlapNext ==
    \/ \E t \in Tasks, moduleId \in ToSet(Keys(ReadyInstances)) : OverlappingActivate(t, moduleId)
    \/ \E t \in Tasks : ActivateAfterOnDeactivate(t)
    \/ \E t \in Tasks : ActivateAfterOnActivate(t)
    \/ \E t \in Tasks : OverlappingDisposeAll(t)
    \/ \E t \in Tasks : DisposeAllAfterOnDispose(t)
    \/ \E t \in Tasks : Return(t)

OverlapSpec == ManagerReady /\ [][OverlapNext]_vars

TypeOK ==
    /\ viewResolver \in {"unset", "set"}
    /\ ToSet(activeModuleIds) \subseteq ModuleIds
    /\ activeExclusiveModuleId \in ModuleIds \cup {NoId}
    /\ \A t \in Tasks : tasks[t].status \in {"idle", "running", "resolved", "rejected"}

\* ------------------------------------------------------------- properties
\* What a call has done so far, read from the logs.
HookCount(t, hook, id) ==
    Cardinality({i \in 1..Len(hookLog) : hookLog[i] = HookEntry(t, hook, id)})
HooksInvoked(t) == {i \in 1..Len(hookLog) : hookLog[i].task = t}
EventsOf(t, name) ==
    {i \in 1..Len(eventLog) : eventLog[i].task = t /\ eventLog[i].name = name}
Resolved(t, op) == tasks[t].op = op /\ tasks[t].status = "resolved"
HasHook(insts, id, hook) == MapHas(insts, id) /\ hook \in MapGet(insts, id).hooks
\* The activation mode a module declares, exclusive when it declares none.
DeclaredMode(insts, id) ==
    IF MapGet(insts, id).activationMode \in {Absent, "exclusive"} THEN "exclusive"
    ELSE MapGet(insts, id).activationMode
ActiveExclusiveModules ==
    {id \in ToSet(activeModuleIds) :
        MapHas(instances, id) /\ DeclaredMode(instances, id) = "exclusive"}

\* C1: in every reachable state at most one module whose activation mode is
\* exclusive (or unset) is in the active set, and when there is one it is the
\* module named by activeExclusiveModuleId.
C1_AtMostOneExclusiveActive ==
    /\ Cardinality(ActiveExclusiveModules) <= 1
    /\ \A id \in ActiveExclusiveModules : id = activeExclusiveModuleId

\* An exclusive switch has completed with a parallel and a background module
\* active beside the exclusive one.
C1_Witness ==
    \E t \in Tasks :
        /\ Resolved(t, "activate")
        /\ tasks[t].pre.activeExclusiveModuleId = IdA
        /\ activeExclusiveModuleId = IdB
        /\ {IdG, IdP} \subseteq ToSet(activeModuleIds)

\* C2: when activate(B) completes with exclusive A active before it (A # B,
\* both exclusive), A's onDeactivate was invoked exactly once, A is out of the
\* active set, activeExclusiveModuleId is B, and exactly one module:activated
\* event was emitted, for B, carrying activeExclusiveModuleId = B.
C2_ExclusiveSwitch ==
    \A t \in Tasks :
        LET a == tasks[t].pre.activeExclusiveModuleId
            b == tasks[t].arg IN
        ( /\ Resolved(t, "activate")
          /\ a # NoId /\ a # b
          /\ MapHas(tasks[t].pre.instances, b)
          /\ DeclaredMode(tasks[t].pre.instances, b) = "exclusive" )
        => /\ HookCount(t, "onDeactivate", a) =
                  (IF HasHook(tasks[t].pre.instances, a, "onDeactivate")
                   THEN 1 ELSE 0)
           /\ a \notin ToSet(activeModuleIds)
           /\ b \in ToSet(activeModuleIds)
           /\ activeExclusiveModuleId = b
           /\ Cardinality(EventsOf(t, "module:activated")) = 1
           /\ \A i \in EventsOf(t, "module:activated") :
                  /\ eventLog[i].moduleId = b
                  /\ eventLog[i].activeExclusiveModuleId = b

\* activate(B) has completed after activate(A), and A's onDeactivate ran.
C2_Witness ==
    \E t \in Tasks :
        /\ Resolved(t, "activate")
        /\ tasks[t].pre.activeExclusiveModuleId = IdA
        /\ tasks[t].arg = IdB
        /\ HookCount(t, "onDeactivate", IdA) = 1
        /\ HookCount(t, "onActivate", IdB) = 1

\* C3: an activation never removes a parallel or background module from the
\* active set nor invokes its onDeactivate; activating a parallel or background
\* module leaves every other module's activation and activeExclusiveModuleId
\* unchanged; an exclusive activation removes at most the previous exclusive
\* module.
C3_ActivateFrame ==
    \A t \in Tasks :
        LET pre == tasks[t].pre
            m == tasks[t].arg IN
        /\ tasks[t].op \in {"activate", "initAll"} =>
              \A id \in ToSet(pre.activeModuleIds) :
                  (MapHas(pre.instances, id) /\
                   DeclaredMode(pre.instances, id) \in {"parallel", "background"})
                  => /\ id \in ToSet(activeModuleIds)
                     /\ HookCount(t, "onDeactivate", id) = 0
        /\ (tasks[t].op = "activate" /\ MapHas(pre.instances, m)) =>
              IF DeclaredMode(pre.instances, m) \in {"parallel", "background"}
              THEN /\ ToSet(activeModuleIds) \ {m} = ToSet(pre.activeModuleIds) \ {m}
                   /\ activeExclusiveModuleId = pre.activeExclusiveModuleId
                   /\ \A i \in HooksInvoked(t) : hookLog[i].id = m
              ELSE /\ ToSet(pre.activeModuleIds) \ ToSet(activeModuleIds)
                          \subseteq {pre.activeExclusiveModuleId}
                   /\ \A i \in HooksInvoked(t) :
                          hookLog[i].id \in {m, pre.activeExclusiveModuleId}

\* A second parallel module was activated beside a parallel, a background and
\* an exclusive module, and an exclusive switch happened beside them.
C3_Witness ==
    \E t \in Tasks :
        /\ Resolved(t, "activate")
        /\ \/ /\ tasks[t].arg = IdQ
              /\ {IdP, IdG, IdA} \subseteq ToSet(tasks[t].pre.activeModuleIds)
              /\ IdQ \in ToSet(activeModuleIds)
           \/ /\ tasks[t].arg = IdB
              /\ {IdP, IdG, IdA} \subseteq ToSet(tasks[t].pre.activeModuleIds)
              /\ IdA \notin ToSet(activeModuleIds)

\* The manager's state is what it was when call t was made.
Untouched(t) ==
    /\ instances = tasks[t].pre.instances
    /\ activeModuleIds = tasks[t].pre.activeModuleIds
    /\ activeExclusiveModuleId = tasks[t].pre.activeExclusiveModuleId
NoEffects(t) ==
    /\ HooksInvoked(t) = {}
    /\ \A i \in 1..Len(eventLog) : eventLog[i].task # t
ExpectedCount(insts, id, hook) == IF HasHook(insts, id, hook) THEN 1 ELSE 0

\* C4: when initAll() resolves, every instantiated background module is in
\* activeModuleIds, the module:activated event of each module initAll activated
\* precedes modules:ready, initAll activated only background modules, and
\* activeExclusiveModuleId is what it was (null on a fresh manager).
C4_InitAllActivatesBackground ==
    \A t \in Tasks :
        Resolved(t, "initAll") =>
          LET pre == tasks[t].pre
              added == ToSet(activeModuleIds) \ ToSet(pre.activeModuleIds) IN
          /\ \A i \in 1..Len(instances) :
                instances[i].activationMode = "background"
                => instances[i].id \in ToSet(activeModuleIds)
          /\ \A id \in added :
                /\ MapGet(instances, id).activationMode = "background"
                /\ \E i \in EventsOf(t, "module:activated"),
                      j \in EventsOf(t, "modules:ready") :
                      i < j /\ eventLog[i].moduleId = id
          /\ \A i \in HooksInvoked(t) :
                hookLog[i].hook = "onActivate"
                => MapGet(instances, hookLog[i].id).activationMode = "background"
          /\ activeExclusiveModuleId = pre.activeExclusiveModuleId
          /\ pre.instances = <<>> => activeExclusiveModuleId = NoId

\* The first initAll has resolved: the background module is active, the
\* exclusive and parallel ones are instantiated and not active.
C4_Witness ==
    \E t \in Tasks :
        /\ Resolved(t, "initAll")
        /\ tasks[t].pre.instances = <<>>
        /\ activeModuleIds = <<IdG>>
        /\ MapHas(instances, IdA) /\ MapHas(instances, IdP)
        /\ activeExclusiveModuleId = NoId

\* C5: activate(id) is a no-op when id has no instance or is already active: it
\* resolves with no hook invoked, no event emitted, and the instances, the
\* active set and activeExclusiveModuleId unchanged.
C5_ActivateNoOp ==
    \A t \in Tasks :
        ( /\ tasks[t].op = "activate"
          /\ \/ ~MapHas(tasks[t].pre.instances, tasks[t].arg)
             \/ tasks[t].arg \in ToSet(tasks[t].pre.activeModuleIds) )
        => /\ tasks[t].status = "resolved"
           /\ NoEffects(t)
           /\ Untouched(t)

\* activate of the module that holds the exclusive slot has returned.
C5_Witness ==
    \E t \in Tasks :
        /\ Resolved(t, "activate")
        /\ tasks[t].arg = IdA
        /\ IdA \in ToSet(tasks[t].pre.activeModuleIds)
        /\ activeExclusiveModuleId = IdA

\* activate of a module skipped by its enabled predicate, after initAll.
C5_WitnessSkipped ==
    \E t \in Tasks :
        /\ Resolved(t, "activate")
        /\ tasks[t].arg = IdX
        /\ MapHas(instances, IdA)

\* activate of a module registered after initAll.
C5_WitnessLate ==
    \E t \in Tasks :
        /\ Resolved(t, "activate")
        /\ tasks[t].arg = IdQ
        /\ DefQ \in ToSet(definitions)
        /\ MapHas(instances, IdA) /\ ~MapHas(instances, IdQ)

\* C6: deactivate(id) on an active module invokes its onDeactivate, removes id
\* from the active set, clears activeExclusiveModuleId iff id held it, leaves
\* every other module's activation unchanged, and emits one module:deactivated
\* whose activeExclusiveModuleId and activeModuleIds are the resulting state.
C6_Deactivate ==
    \A t \in Tasks :
        LET pre == tasks[t].pre
            id == tasks[t].arg IN
        ( /\ Resolved(t, "deactivate")
          /\ id \in ToSet(pre.activeModuleIds) )
        => /\ HookCount(t, "onDeactivate", id) =
                  ExpectedCount(pre.instances, id, "onDeactivate")
           /\ \A i \in HooksInvoked(t) : hookLog[i] = HookEntry(t, "onDeactivate", id)
           /\ id \notin ToSet(activeModuleIds)
           /\ activeModuleIds = SeqWithout(pre.activeModuleIds, id)
           /\ activeExclusiveModuleId =
                  (IF pre.activeExclusiveModuleId = id THEN NoId
                   ELSE pre.activeExclusiveModuleId)
           /\ instances = pre.instances
           /\ Cardinality(EventsOf(t, "module:deactivated")) = 1
           /\ \A i \in 1..Len(eventLog) :
                  /\ eventLog[i].name = "module:deactivated"
                  /\ eventLog[i].moduleId = id
                  /\ eventLog[i].activeExclusiveModuleId = activeExclusiveModuleId
                  /\ eventLog[i].activeModuleIds = activeModuleIds

\* A parallel module was deactivated while an exclusive one stays active.
C6_Witness ==
    \E t \in Tasks :
        /\ Resolved(t, "deactivate")
        /\ tasks[t].arg = IdP
        /\ {IdA, IdP, IdG} \subseteq ToSet(tasks[t].pre.activeModuleIds)
        /\ activeExclusiveModuleId = IdA

\* The exclusive module was deactivated.
C6_WitnessExclusive ==
    \E t \in Tasks :
        /\ Resolved(t, "deactivate")
        /\ tasks[t].arg = IdA
        /\ tasks[t].pre.activeExclusiveModuleId = IdA
        /\ IdP \in ToSet(activeModuleIds)

\* C7: after deactivateAll() resolves, getSnapshot() is
\* {activeExclusiveModuleId: null, activeModuleIds: []}, each module that was
\* active had its onDeactivate invoked, and while the call runs at most one
\* module's onDeactivate is invoked and not yet followed by its removal.
C7_DeactivateAll ==
    \A t \in Tasks :
        tasks[t].op = "deactivateAll" =>
          LET pre == tasks[t].pre
              hooked == {id \in ToSet(pre.activeModuleIds) :
                            HasHook(pre.instances, id, "onDeactivate")}
              invoked == {id \in hooked : HookCount(t, "onDeactivate", id) > 0}
              removed == {id \in hooked : id \notin ToSet(activeModuleIds)} IN
          /\ Cardinality(invoked) <= Cardinality(removed) + 1
          /\ removed \subseteq invoked
          /\ \A id \in hooked : HookCount(t, "onDeactivate", id) <= 1
          /\ tasks[t].status = "resolved" =>
                /\ GetSnapshot = [activeExclusiveModuleId |-> NoId,
                                  activeModuleIds |-> <<>>]
                /\ invoked = hooked
                /\ Cardinality(EventsOf(t, "modules:deactivated")) = 1

\* deactivateAll has resolved from a state with an exclusive, a parallel and a
\* background module active.
C7_Witness ==
    \E t \in Tasks :
        /\ Resolved(t, "deactivateAll")
        /\ {IdB, IdP, IdG} \subseteq ToSet(tasks[t].pre.activeModuleIds)
        /\ tasks[t].pre.activeExclusiveModuleId = IdB

\* C8: when initAll() or activate(id) rejects because a module's onInit or
\* onActivate threw, that module is neither in activeModuleIds nor the
\* activeExclusiveModuleId.
C8_FailedModuleNotActive ==
    \A t \in Tasks :
        ( /\ tasks[t].status = "rejected"
          /\ tasks[t].op \in {"initAll", "activate"}
          /\ tasks[t].failed.hook \in {"onInit", "onActivate"} )
        => /\ tasks[t].failed.id \notin ToSet(activeModuleIds)
           /\ activeExclusiveModuleId # tasks[t].failed.id

\* The definitions whose enabled or supports predicate resolves false.
Skipped(defs) ==
    {d \in ToSet(defs) : d.enabled = "false" \/ d.supports = "false"}

\* C9: initAll() never invokes the factory of a module whose enabled or
\* supports predicate resolves false (an absent predicate counts as true); it
\* emits modules:ready exactly once, last, after every factory, onInit and
\* background activation, with moduleIds the instantiated modules; and a
\* skipped module is never instantiated nor active.
C9_InitAllSkipsAndReady ==
    /\ \A d \in Skipped(definitions) :
          /\ ~MapHas(instances, d.id)
          /\ d.id \notin ToSet(activeModuleIds)
    /\ \A t \in Tasks :
          tasks[t].op = "initAll" =>
            LET pre == tasks[t].pre
                wanted == ToSet(pre.definitions) \ Skipped(pre.definitions) IN
            /\ \A i \in HooksInvoked(t) :
                  hookLog[i].hook = "factory"
                  => \E d \in wanted : d.id = hookLog[i].id
            /\ tasks[t].status # "resolved" => EventsOf(t, "modules:ready") = {}
            /\ tasks[t].status = "resolved" =>
                  /\ EventsOf(t, "modules:ready") = {Len(eventLog)}
                  /\ eventLog[Len(eventLog)].moduleIds = Keys(instances)
                  /\ ToSet(Keys(instances)) =
                         ToSet(Keys(pre.instances)) \cup {d.id : d \in wanted}
                  /\ \A d \in wanted :
                        /\ HookCount(t, "factory", d.id) = 1
                        /\ HookCount(t, "onInit", d.id) =
                               ExpectedCount(instances, d.id, "onInit")
                        /\ d.activationMode = "background"
                           => d.id \in ToSet(activeModuleIds)

\* initAll has resolved on a registry holding a module skipped by enabled and
\* one skipped by supports, with the four others instantiated.
C9_Witness ==
    \E t \in Tasks :
        /\ Resolved(t, "initAll")
        /\ {DefX, DefY} \subseteq Skipped(tasks[t].pre.definitions)
        /\ Keys(instances) = <<IdA, IdG, IdP, IdB>>
        /\ Len(eventLog) = 2

\* C10: after disposeAll() resolves, onDispose has been invoked exactly once on
\* every instantiated module, no instance remains, the active set is empty
\* and activeExclusiveModuleId is null; with no instance left, activate(id) is
\* a no-op.
C10_DisposeAll ==
    \A t \in Tasks :
        /\ Resolved(t, "disposeAll") =>
              /\ \A i \in 1..Len(tasks[t].pre.instances) :
                    HookCount(t, "onDispose", tasks[t].pre.instances[i].id) =
                        ExpectedCount(tasks[t].pre.instances,
                                      tasks[t].pre.instances[i].id, "onDispose")
              /\ \A i \in HooksInvoked(t) : hookLog[i].hook = "onDispose"
              /\ instances = <<>>
              /\ activeModuleIds = <<>>
              /\ activeExclusiveModuleId = NoId
        /\ (tasks[t].op = "activate" /\ tasks[t].pre.instances = <<>>) =>
              /\ tasks[t].status = "resolved"
              /\ NoEffects(t)
              /\ instances = <<>>
              /\ activeModuleIds = <<>>
              /\ activeExclusiveModuleId = NoId

\* disposeAll has resolved on a manager with active and inactive instances.
C10_Witness ==
    \E t \in Tasks :
        /\ Resolved(t, "disposeAll")
        /\ Len(tasks[t].pre.instances) = 4
        /\ ToSet(tasks[t].pre.activeModuleIds) = {IdG, IdA}
        /\ tasks[t].pre.activeExclusiveModuleId = IdA

\* ------------------------------------------------- properties: the event bus
\* How often emit call i has invoked handler h, and with which payloads.
InvokeCount(i, h) ==
    Cardinality({k \in 1..Len(busLog) :
        busLog[k].emit = i /\ busLog[k].kind = "invoke" /\ busLog[k].handler = h})
InvokePayloads(i, h) ==
    {busLog[k].payload : k \in {j \in 1..Len(busLog) :
        busLog[j].emit = i /\ busLog[j].kind = "invoke" /\ busLog[j].handler = h}}
Registered(i) == ToSet(emissions[i].registered)
Executing(i) == \E n \in 1..Len(dispatch) : dispatch[n].id = i

\* C11: an emit call invokes only handlers that were subscribed to the event
\* when it was called, each at most once, and by the time it returns it has
\* invoked every one of them exactly once, whatever the handlers subscribed or
\* unsubscribed meanwhile.
C11_EmitSnapshot ==
    \A i \in 1..Len(emissions), h \in Handlers :
        /\ InvokeCount(i, h) <= 1
        /\ InvokeCount(i, h) = 1 => h \in Registered(i)
        /\ emissions[i].returned =>
              InvokeCount(i, h) = (IF h \in Registered(i) THEN 1 ELSE 0)

\* emit has returned after h1 unsubscribed h2 during the dispatch, and h2 was
\* invoked all the same.
C11_Witness ==
    /\ dispatch = <<>>
    /\ Len(emissions) = 1
    /\ emissions[1].returned
    /\ emissions[1].registered = <<"h1", "h2">>
    /\ listeners[emissions[1].event] = <<"h1">>
    /\ Len(busLog) >= 3
    /\ busLog[2].kind = "call" /\ busLog[2].handler = "h1"
    /\ busLog[3].kind = "invoke" /\ busLog[3].handler = "h2"

\* emit has returned after h1 subscribed h2 during the dispatch, and h2 was not
\* invoked.
C11_WitnessSubscribed ==
    /\ dispatch = <<>>
    /\ Len(emissions) = 1
    /\ emissions[1].returned
    /\ emissions[1].registered = <<"h1">>
    /\ listeners[emissions[1].event] = <<"h1", "h2">>
    /\ InvokeCount(1, "h2") = 0

\* C12: an emit call is either executing or has returned (a handler's error
\* never unwinds it), and once it has returned every handler registered for the
\* event was invoked with the payload of the call, whichever handlers threw.
C12_ThrowingHandler ==
    \A i \in 1..Len(emissions) :
        /\ emissions[i].returned \/ Executing(i)
        /\ emissions[i].returned =>
              \A h \in Registered(i) :
                  /\ InvokeCount(i, h) = 1
                  /\ InvokePayloads(i, h) = {emissions[i].payload}

\* emit has returned although the first of two handlers threw, and the second
\* was invoked with the same payload.
C12_Witness ==
    /\ dispatch = <<>>
    /\ Len(emissions) = 1
    /\ emissions[1].returned
    /\ emissions[1].registered = <<"h1", "h2">>
    /\ Len(busLog) = 3
    /\ busLog[2] = BusEntry(1, "error", "h1", emissions[1].payload)
    /\ busLog[3] = BusEntry(1, "invoke", "h2", emissions[1].payload)

\* The step is a call of the kept unsubscribe function.
UnsubscribeCalled == held'.calls = held.calls + 1
\* on(event, h) found h subscribed already.
HeldWasSubscribed == Len(held.after) = held.countBefore

\* C13 as stated: the first call of the unsubscribe function, made when nothing
\* has touched the event since on(event, h), brings listenerCount(event) back
\* to its value before that on call.
C13_CountRestored ==
    [][(UnsubscribeCalled /\ held.calls = 0 /\ listeners[held.event] = held.after)
          => ListenerCount(listeners', held.event) = held.countBefore]_vars

\* C13, amended: a call of the unsubscribe function on(event, h) returned leaves
\* h unsubscribed from event and every other handler and event as it was; made
\* first and with the event untouched since the on call, it brings
\* listenerCount(event) back to its value before the on call when h was not
\* subscribed then, and to one less when it was; made again with h still
\* unsubscribed, it changes nothing; and an emit(event) called while h is
\* unsubscribed does not invoke h.
C13_UnsubscribeRoundTrip ==
    /\ [][UnsubscribeCalled =>
            /\ held.handler \notin ToSet(listeners'[held.event])
            /\ listeners'[held.event] = SeqWithout(listeners[held.event], held.handler)
            /\ \A e \in BusEvents \ {held.event} : listeners'[e] = listeners[e]
            /\ (held.calls = 0 /\ listeners[held.event] = held.after) =>
                  ListenerCount(listeners', held.event) =
                      held.countBefore - (IF HeldWasSubscribed THEN 1 ELSE 0)
            /\ (held.calls >= 1 /\ held.handler \notin ToSet(listeners[held.event])) =>
                  listeners' = listeners]_vars
    /\ [](\A i \in 1..Len(emissions) :
            ( /\ held.calls >= 1
              /\ emissions[i].event = held.event
              /\ held.handler \notin ToSet(listeners[held.event]) )
            => InvokeCount(i, held.handler) = 0)

\* The unsubscribe function was called twice, the other handler of the event is
\* still subscribed, and an emit of the event has returned having invoked it.
C13_Witness ==
    /\ held.calls = 2
    /\ held.handler = "h1"
    /\ held.countBefore = 1
    /\ listeners[held.event] = <<"h2">>
    /\ dispatch = <<>>
    /\ Len(emissions) = 1
    /\ emissions[1].event = held.event
    /\ emissions[1].returned
    /\ InvokeCount(1, "h2") = 1

\* on(event, h) was called with h subscribed already, and the unsubscribe
\* function it returned has been called: the count is one below what it was.
C13_WitnessResubscribed ==
    /\ held.calls = 1
    /\ HeldWasSubscribed
    /\ ListenerCount(listeners, held.event) = held.countBefore - 1

\* C14: no handler is invoked for an event whose name does not match
\* EVENT_NAME_PATTERN.
C14_OnlyValidNamesDelivered ==
    \A k \in 1..Len(busLog) :
        busLog[k].kind = "invoke" => IsValidEventName(emissions[busLog[k].emit].event)

\* ------------------------------------------------- properties: the registry
\* The definition a register call was given.
Offered(id) == CHOOSE d \in LateDefinitions : d.id = id
Registering(t) == tasks[t].op = "register"

\* C15: a register call for an id that is already registered is rejected with
\* the duplicate-id error and leaves the registry as it was: the same
\* definitions in the same order, the first definition still under the id.
C15_DuplicateRegister ==
    \A t \in Tasks :
        (Registering(t) /\ MapHas(tasks[t].pre.definitions, tasks[t].arg))
        => /\ tasks[t].status = "rejected"
           /\ tasks[t].error = "DuplicateModuleId"
           /\ definitions = tasks[t].pre.definitions
           /\ MapGet(definitions, tasks[t].arg) =
                  MapGet(tasks[t].pre.definitions, tasks[t].arg)

\* register was called with a second definition for w.a and was rejected; w.a
\* is still the first definition.
C15_Witness ==
    \E t \in Tasks :
        /\ Registering(t)
        /\ tasks[t].arg = IdA
        /\ tasks[t].status = "rejected"
        /\ MapGet(definitions, IdA) = DefA
        /\ DefA2 # DefA

C16_WitnessIdError ==
    \E t \in Tasks :
        /\ Registering(t)
        /\ tasks[t].arg = IdUpper
        /\ viewResolver = "set"
        /\ tasks[t].error = "InvalidModuleId"

C16_WitnessNoResolver ==
    \E t \in Tasks :
        /\ Registering(t)
        /\ tasks[t].arg = IdL
        /\ viewResolver = "unset"
        /\ tasks[t].status = "resolved"
        /\ MapHas(definitions, IdL)

\* ----------------------------------------- properties: the adapter registry
\* The registered adapters that support a capability, by position.
Supporting(as, capability) == {i \in 1..Len(as) : Supports(as[i], capability)}

\* C18: a register call for an adapter id that is already registered fails
\* with the duplicate-adapter error and leaves the registry as it was, the
\* first adapter in its position; and findByCapability returns the adapter
\* registered earliest among those that support the capability, or none.
C18_AdapterRegistry ==
    /\ (adapterCall.op = "register" /\ MapHas(adapterCall.before, adapterCall.adapter.id))
       => /\ adapterCall.error = "DuplicateAdapter"
          /\ adapters = adapterCall.before
          /\ \A capability \in Capabilities :
                FindByCapability(adapters, capability) =
                    FindByCapability(adapterCall.before, capability)
    /\ \A capability \in Capabilities :
          LET found == FindByCapability(adapters, capability)
              S == Supporting(adapters, capability) IN
          IF S = {} THEN found = NoAdapter
          ELSE \E i \in S : found = adapters[i] /\ \A j \in S : i <= j

\* With Android and iOS registered in that order, register of another adapter
\* under the iOS id has failed; the first adapter for device-operations is
\* still Android and none supports system-command.
C18_Witness ==
    /\ adapterCall.op = "register"
    /\ adapterCall.adapter = IosTwinAdapter
    /\ adapterCall.error = "DuplicateAdapter"
    /\ adapters = <<AndroidDeviceAdapter, IosDeviceAdapter>>
    /\ FindByCapability(adapters, "device-operations") = AndroidDeviceAdapter
    /\ FindByCapability(adapters, "system-command") = NoAdapter

\* --------------------------------------------------- properties: the kernel
Booting(t) == tasks[t].op = "boot"
\* The positions in hookLog of what boot call t did, by kind.
Logged(t, hooks) ==
    {i \in 1..Len(hookLog) : hookLog[i].task = t /\ hookLog[i].hook \in hooks}
\* The providers whose load() boot call t has called, in call order.
LoadsOf(t) ==
    LET loads == SelectSeq(hookLog, LAMBDA e : e.task = t /\ e.hook = "load") IN
    [i \in 1..Len(loads) |-> loads[i].id]
IsPrefix(s, full) == Len(s) <= Len(full) /\ s = SubSeq(full, 1, Len(s))
AllRegistered(provider) ==
    \A i \in 1..Len(provider.definitions) :
        provider.definitions[i] \in ToSet(definitions)

\* C17: boot calls load() of the providers in the order given, each once and
\* only when every provider before it has been loaded and its definitions
\* registered; and once a load() has rejected or a registration has thrown,
\* boot has rejected, no further load() is called, and (on a kernel without a
\* manager) no manager is constructed, no factory invoked and modules:ready not
\* emitted.
C17_LoadOrderAndAbort ==
    \A t \in Tasks :
        Booting(t) =>
            /\ IsPrefix(LoadsOf(t), tasks[t].arg)
            /\ \A k \in 1..Len(LoadsOf(t)) : \A j \in 1..(k - 1) :
                  AllRegistered(ProviderOf(LoadsOf(t)[j]))
            /\ tasks[t].status = "resolved" => LoadsOf(t) = tasks[t].arg
            /\ \A i \in Logged(t, {"loadRejected", "registerThrew"}) :
                  /\ tasks[t].status = "rejected"
                  /\ \A j \in Logged(t, {"load"}) : j < i
                  /\ hookLog[i].id = LoadsOf(t)[Len(LoadsOf(t))]
                  /\ moduleManager = "none"
                  /\ Logged(t, {"factory"}) = {}
                  /\ EventsOf(t, "modules:ready") = {}

\* boot([bad, builtin]) has rejected on the invalid id of bad's second
\* definition: builtin was never loaded and there is no manager.
C17_Witness ==
    \E t \in Tasks :
        /\ Booting(t)
        /\ tasks[t].arg = <<ProviderBad.id, ProviderBuiltin.id>>
        /\ tasks[t].status = "rejected"
        /\ tasks[t].error = "InvalidModuleId"
        /\ LoadsOf(t) = <<ProviderBad.id>>
        /\ moduleManager = "none"

\* boot([extra, builtin]) has rejected because builtin's load() rejected.
C17_WitnessLoadRejected ==
    \E t \in Tasks :
        /\ Booting(t)
        /\ tasks[t].arg = <<ProviderExtra.id, ProviderBuiltin.id>>
        /\ tasks[t].error = "ProviderLoadFailure"
        /\ LoadsOf(t) = tasks[t].arg
        /\ MapHas(definitions, IdP)

\* C19: while the kernel has no manager, activateModule, deactivateModule and
\* deactivateAllModules resolve without invoking a hook, emitting an event or
\* changing the activation state, and getSnapshot reports a null
\* activeExclusiveModuleId and no active module.
C19_NoManagerNoOp ==
    moduleManager = "none" =>
        /\ KernelGetSnapshot.modules.activeExclusiveModuleId = NoId
        /\ KernelGetSnapshot.modules.activeModuleIds = <<>>
        /\ \A t \in Tasks :
              tasks[t].op \in {"activateModule", "deactivateModule",
                               "deactivateAllModules", "activate", "deactivate",
                               "deactivateAll"}
              => /\ tasks[t].status = "resolved"
                 /\ HooksInvoked(t) = {}
                 /\ \A i \in 1..Len(eventLog) : eventLog[i].task # t
                 /\ instances = tasks[t].pre.instances
                 /\ activeModuleIds = tasks[t].pre.activeModuleIds
                 /\ activeExclusiveModuleId = tasks[t].pre.activeExclusiveModuleId

\* After a boot that failed with w.b registered and no manager constructed,
\* activateModule(w.b) has resolved.
C19_Witness ==
    \E t \in Tasks :
        /\ moduleManager = "none"
        /\ MapHas(definitions, IdB)
        /\ tasks[t].op = "activateModule"
        /\ tasks[t].arg = IdB
        /\ tasks[t].status = "resolved"

\* Characters in code-unit order, as far as ids and names use them.
CharOrder ==
    <<"-", ".", "0", "1", "2", "3", "4", "5", "6", "7", "8", "9",
      "A", "B", "C", "D", "E", "F", "G", "H", "I", "J", "K", "L", "M",
      "N", "O", "P", "Q", "R", "S", "T", "U", "V", "W", "X", "Y", "Z",
      "a", "b", "c", "d", "e", "f", "g", "h", "i", "j", "k", "l", "m",
      "n", "o", "p", "q", "r", "s", "t", "u", "v", "w", "x", "y", "z">>
CharRank(ch) == CHOOSE i \in 1..Len(CharOrder) : CharOrder[i] = ch
\* a <= b for strings.
RECURSIVE StringLeq(_, _)
StringLeq(a, b) ==
    IF a = <<>> THEN TRUE
    ELSE IF b = <<>> THEN FALSE
    ELSE IF Head(a) = Head(b) THEN StringLeq(Tail(a), Tail(b))
    ELSE CharRank(Head(a)) < CharRank(Head(b))
Ascending(keys) == \A i \in 1..(Len(keys) - 1) : StringLeq(keys[i], keys[i + 1])
Descending(keys) == \A i \in 1..(Len(keys) - 1) : StringLeq(keys[i + 1], keys[i])
ManifestIds == [i \in 1..Len(definitions) |-> KernelGetSnapshot.modules.manifests[i].id]
ManifestNames == [i \in 1..Len(definitions) |-> KernelGetSnapshot.modules.manifests[i].name]

\* C20: the manifests of getSnapshot() are sorted by id or sorted by name (in
\* either direction).
C20_ManifestsSorted ==
    \/ Ascending(ManifestIds)
    \/ Descending(ManifestIds)
    \/ Ascending(ManifestNames)
    \/ Descending(ManifestNames)

\* ------------------------------------------------- properties, third part
\* The active modules whose activation mode is background.
ActiveBackground ==
    {id \in ToSet(activeModuleIds) :
        MapHas(instances, id) /\ DeclaredMode(instances, id) = "background"}
\* The step starts or resumes an activate call (one made by initAll included).
ActivateStep ==
    \E t \in Tasks :
        /\ tasks'[t] # tasks[t]
        /\ tasks'[t].op \in {"activate", "initAll"}

\* C21: when initAll() has resolved every instantiated background module is
\* active, and no step of an activate call removes a background module from the
\* active set.
C21_BackgroundStaysActive ==
    /\ [](\A t \in Tasks :
            Resolved(t, "initAll") =>
                \A i \in 1..Len(instances) :
                    GetActivationMode(instances[i]) = "background"
                    => instances[i].id \in ToSet(activeModuleIds))
    /\ [][ActivateStep => ActiveBackground \subseteq ToSet(activeModuleIds')]_vars

\* With the background module active since initAll, an exclusive switch from A
\* to B has completed and the background module is still active.
C21_Witness ==
    \E t \in Tasks :
        /\ Resolved(t, "activate")
        /\ tasks[t].arg = IdB
        /\ tasks[t].pre.activeExclusiveModuleId = IdA
        /\ IdG \in ToSet(tasks[t].pre.activeModuleIds)
        /\ IdG \in ActiveBackground
        /\ activeExclusiveModuleId = IdB

\* The position of a call's first invocation of a hook in the log, 0 if none.
FirstHook(t, hook, id) ==
    IF HookCount(t, hook, id) = 0 THEN 0
    ELSE CHOOSE i \in 1..Len(hookLog) :
            /\ hookLog[i] = HookEntry(t, hook, id)
            /\ \A j \in 1..(i - 1) : hookLog[j] # HookEntry(t, hook, id)
\* activate(b) was called with a holding the exclusive slot, b exclusive too.
Switching(t) ==
    LET pre == tasks[t].pre
        b == tasks[t].arg IN
    /\ tasks[t].op = "activate"
    /\ pre.activeExclusiveModuleId # NoId
    /\ MapHas(pre.instances, pre.activeExclusiveModuleId)
    /\ MapHas(pre.instances, b)
    /\ b \notin ToSet(pre.activeModuleIds)
    /\ DeclaredMode(pre.instances, b) = "exclusive"

\* C22: in an activate(B) call that switches the exclusive slot from A to B,
\* B's onActivate is not invoked while A's onDeactivate is awaited, and when it
\* is invoked A's onDeactivate was invoked before it; if A's onDeactivate
\* throws, the call rejects with B's onActivate never invoked, no
\* module:activated emitted, and the active set and activeExclusiveModuleId as
\* they were before the call (A active and exclusive).
C22_DeactivateBeforeActivate ==
    \A t \in Tasks :
        Switching(t) =>
            LET pre == tasks[t].pre
                a == pre.activeExclusiveModuleId
                b == tasks[t].arg IN
            /\ Running(t, "activate", "onDeactivate")
               => HookCount(t, "onActivate", b) = 0
            /\ HookCount(t, "onActivate", b) > 0
               => /\ ~Running(t, "activate", "onDeactivate")
                  /\ HasHook(pre.instances, a, "onDeactivate")
                     => /\ HookCount(t, "onDeactivate", a) = 1
                        /\ FirstHook(t, "onDeactivate", a)
                               < FirstHook(t, "onActivate", b)
            /\ (tasks[t].status = "rejected" /\ tasks[t].failed.hook = "onDeactivate")
               => /\ tasks[t].failed.id = a
                  /\ HookCount(t, "onActivate", b) = 0
                  /\ EventsOf(t, "module:activated") = {}
                  /\ activeModuleIds = pre.activeModuleIds
                  /\ activeExclusiveModuleId = a
                  /\ a \in ToSet(activeModuleIds)

\* activate(B) was rejected because the onDeactivate of A, the exclusive module
\* it was switching from, threw.
C22_Witness ==
    \E t \in Tasks :
        /\ Switching(t)
        /\ tasks[t].arg = IdB
        /\ tasks[t].pre.activeExclusiveModuleId = IdA
        /\ tasks[t].status = "rejected"
        /\ tasks[t].failed = [hook |-> "onDeactivate", id |-> IdA]

\* activate(B) has resolved after A's onDeactivate and then B's onActivate ran.
C22_WitnessSwitched ==
    \E t \in Tasks :
        /\ Switching(t)
        /\ Resolved(t, "activate")
        /\ FirstHook(t, "onDeactivate", tasks[t].pre.activeExclusiveModuleId) > 0
        /\ FirstHook(t, "onActivate", tasks[t].arg) > 1

\* The module:activated events logged.
ActivatedEvents == {i \in 1..Len(eventLog) : eventLog[i].name = "module:activated"}

\* C23: every module:activated event carries an active set that contains its
\* moduleId and, when its activationMode is exclusive, an
\* activeExclusiveModuleId that is its moduleId.
C23_ActivatedReflectsPostState ==
    \A i \in ActivatedEvents :
        /\ eventLog[i].moduleId \in ToSet(eventLog[i].activeModuleIds)
        /\ eventLog[i].activationMode = "exclusive"
           => eventLog[i].activeExclusiveModuleId = eventLog[i].moduleId

\* The module t awaits the onActivate of, and the one it awaits the
\* onDeactivate of (NoId when it awaits neither, or the hook is absent).
AwaitsOnActivate(t) ==
    IF Running(t, "activate", "onActivate") /\ "onActivate" \in Top(t).inst.hooks
    THEN Top(t).inst.id ELSE NoId
AwaitsOnDeactivate(t) ==
    IF Running(t, "activate", "onDeactivate") /\ "onDeactivate" \in Top(t).cur.hooks
    THEN Top(t).cur.id ELSE NoId

\* C26: no module has its onDeactivate invoked while its own onActivate has not
\* completed, nor its onActivate invoked by two calls at once, and a step that
\* removes a module from the active set (disposeAll apart) follows an
\* invocation of its onDeactivate that has completed in that step.
C26_HooksPaired ==
    \A t, u \in Tasks :
        t # u =>
            /\ AwaitsOnActivate(t) # NoId => AwaitsOnDeactivate(u) # AwaitsOnActivate(t)
            /\ AwaitsOnActivate(t) # NoId => AwaitsOnActivate(u) # AwaitsOnActivate(t)

\* C27: activeModuleIds is a subset of the instantiated module ids, and a
\* non-null activeExclusiveModuleId is in activeModuleIds and names an instance
\* whose activation mode is exclusive.
C27_ActivationStateConsistent ==
    /\ ToSet(activeModuleIds) \subseteq ToSet(Keys(instances))
    /\ activeExclusiveModuleId # NoId
       => /\ activeExclusiveModuleId \in ToSet(activeModuleIds)
          /\ MapHas(instances, activeExclusiveModuleId)
          /\ DeclaredMode(instances, activeExclusiveModuleId) = "exclusive"

\* The handler invocations logged, in the order they were made.
Invocations == {i \in 1..Len(busLog) : busLog[i].kind = "invoke"}

\* C25: an emit call that has returned has no handler invocation outstanding,
\* and a handler invoked for two emit calls of one event is invoked for them in
\* the order the calls were made (emit calls are numbered in call order).
C25_PerEventFifo ==
    /\ \A i \in 1..Len(emissions) :
           emissions[i].returned => \A k \in 1..Len(dispatch) : dispatch[k].id # i
    /\ \A i, j \in Invocations :
           ( /\ i < j
             /\ busLog[i].handler = busLog[j].handler
             /\ emissions[busLog[i].emit].event = emissions[busLog[j].emit].event )
           => busLog[i].emit <= busLog[j].emit

\* The adapters whose initialize hook call t has invoked, in call order.
InitializedBy(t) ==
    LET es == SelectSeq(adapterLog, LAMBDA e : e.task = t /\ e.hook = "initialize") IN
    [i \in 1..Len(es) |-> es[i].id]
\* The registered adapters that have an initialize hook, in registration order.
HookedAdapters ==
    LET as == SelectSeq(adapters, LAMBDA a : "initialize" \in AdapterHooks(a)) IN
    [i \in 1..Len(as) |-> as[i].id]
AwaitsInitialize(t) ==
    \E k \in 1..Len(tasks[t].stack) :
        tasks[t].stack[k].pc \in {"isTauriEnvironment", "getDependencyStatus",
                                  "initialize", "initializeAll"}
\* Boot call t has emitted modules:ready.
ReadyEmitted(t) == Booting(t) /\ EventsOf(t, "modules:ready") # {}

\* C24: a boot call invokes the initialize hooks in registration order; when it
\* calls a provider's load(), the adapters are initialized, every initialize
\* hook it invoked has completed and, if it did the initialization, every
\* hooked adapter was initialized and adapters:initialized emitted; when it
\* invokes a factory, every provider of the call has been loaded and its
\* definitions registered; and once it has emitted modules:ready, that event is
\* the last one, the manager exists with exactly the announced instances,
\* nothing is left for boot to do but return, and it logs nothing more.
C24_BootOrder ==
    /\ [](\A t \in Tasks :
            Booting(t) =>
              /\ IsPrefix(InitializedBy(t), HookedAdapters)
              /\ Logged(t, {"load"}) # {} =>
                    /\ adaptersInitialized
                    /\ ~AwaitsInitialize(t)
                    /\ InitializedBy(t) # <<>> => InitializedBy(t) = HookedAdapters
                    /\ InitializedBy(t) # <<>> => EventsOf(t, "adapters:initialized") # {}
                    /\ EventsOf(t, "adapters:initialized") # {}
                          => InitializedBy(t) = HookedAdapters
              /\ \A i \in Logged(t, {"factory"}) :
                    /\ LoadsOf(t) = tasks[t].arg
                    /\ \A j \in Logged(t, {"load"}) : j < i
                    /\ \A k \in 1..Len(tasks[t].arg) :
                          AllRegistered(ProviderOf(tasks[t].arg[k]))
              /\ \A i \in EventsOf(t, "modules:ready") :
                    /\ i = Len(eventLog)
                    /\ moduleManager = "constructed"
                    /\ eventLog[i].moduleIds = Keys(instances)
                    /\ tasks[t].status # "rejected"
                    /\ tasks[t].stack \in {<<>>, <<BootFrame("initAll", <<>>)>>})
    /\ [][\A t \in Tasks :
            ReadyEmitted(t) =>
              /\ hookLog' \in {hookLog, <<>>}
              /\ eventLog' \in {eventLog, <<>>}
              /\ adapterLog' \in {adapterLog, <<>>}]_vars

\* boot([builtin, extra]) inside Tauri, on a kernel whose host registered
\* custom.trace and then custom.probe, has resolved: both initialize hooks
\* ran in that order, both providers were loaded, factories were invoked and
\* modules:ready emitted.
C24_Witness ==
    \E t \in Tasks :
        /\ Resolved(t, "boot")
        /\ tasks[t].arg = <<ProviderBuiltin.id, ProviderExtra.id>>
        /\ InitializedBy(t) = <<CustomTrace.id, CustomAdapter.id>>
        /\ MapHas(adapters, TauriSystemAdapter.id)
        /\ Logged(t, {"factory"}) # {}
        /\ ReadyEmitted(t)

\* After a boot has resolved and returned, activateModule on a module it
\* instantiated has activated it.
C24_WitnessActivateAccepted ==
    \E t \in Tasks :
        /\ Resolved(t, "activate")
        /\ moduleManager = "constructed"
        /\ tasks[t].arg \in ToSet(activeModuleIds)
        /\ HookedAdapters # <<>>

\* C28: over initializeAdapters, boot and disposeAdapters calls, overlapping
\* or not: no adapter is registered twice, no call fails with the
\* duplicate-adapter error, and no adapter's initialize hook is invoked twice
\* without its dispose hook invoked in between.
C28_InitializeAdaptersIdempotent ==
    /\ \A i, j \in 1..Len(adapters) : adapters[i].id = adapters[j].id => i = j
    /\ \A t \in Tasks : tasks[t].error # "DuplicateAdapter"
    /\ \A i, j \in 1..Len(adapterLog) :
          ( /\ i < j
            /\ adapterLog[i].hook = "initialize"
            /\ adapterLog[j].hook = "initialize"
            /\ adapterLog[i].id = adapterLog[j].id )
          => \E k \in (i + 1)..(j - 1) :
                /\ adapterLog[k].hook = "dispose"
                /\ adapterLog[k].id = adapterLog[i].id

\* The definitions the providers of boot call t yield, in registration order.
RECURSIVE Yielded(_)
Yielded(providerIds) ==
    IF providerIds = <<>> THEN <<>>
    ELSE ProviderOf(Head(providerIds)).definitions \o Yielded(Tail(providerIds))
\* Boot call t was given providers that yield an id that is registered already
\* (before the call, or by the call itself), with nothing invalid before it.
YieldsRegisteredId(t) ==
    LET ds == Yielded(tasks[t].arg) IN
    /\ Booting(t)
    /\ \E i \in 1..Len(ds) :
          /\ \/ MapHas(tasks[t].pre.definitions, ds[i].id)
             \/ \E j \in 1..(i - 1) : ds[j].id = ds[i].id
          /\ \A j \in 1..(i - 1) : IsValidModuleId(ds[j].id)
\* The call was made on a kernel that had a manager with instances.
SecondBoot(t) == YieldsRegisteredId(t) /\ tasks[t].pre.instances # <<>>

C30_UiTracksKernel ==
    ( /\ uiSnapshot.mounted
      /\ \E t \in Tasks : tasks[t].status \in {"resolved", "rejected"} )
    => /\ uiSnapshot.activeExclusiveModuleId =
              KernelGetSnapshot.modules.activeExclusiveModuleId
       /\ uiSnapshot.activeModuleIds = KernelGetSnapshot.modules.activeModuleIds

====
